---- MODULE Spec2Model ----
(***************************************************************************)
(* ADH Rigging Tools (src/__init__.py): the Create Spokes, Create Hooks and *)
(* Map Shape Keys to Bones operators acting on a host document (one mesh,  *)
(* one armature, one lattice), the binding and masking operators (Use Same *)
(* Custom Shape, Bind Lattice to Objects, Apply Lattices, Mask Selected    *)
(* Vertices, Remove Vertex Groups of Unselected Bones, Bind Object to      *)
(* Bone), and the widget builders of Create Custom Shape.                  *)
(*                                                                         *)
(* Number representation.  Bone and point coordinates are integer vectors  *)
(* in units of 0.01 (BBONE_BASE_SIZE = 0.01 is 1).  A world matrix is a    *)
(* reflection/scale sx in {1,-1} of the X axis followed by a translation   *)
(* tx along X.  An endpoint that align_orientation places along the        *)
(* direction of another bone is kept symbolically: at + off * unit(dir).   *)
(* Host calls are modelled with the meaning the operators rely on: the     *)
(* matrix-vector products of get_vertex_coordinates and create_spokes are  *)
(* products, scene.cursor_location is the 3D cursor, and a collection's    *)
(* new(name) returns an item whose name is made unique by the host.        *)
(***************************************************************************)
EXTENDS Integers, Sequences, FiniteSets, TLC

VARIABLES
    bones,          \* armature.data.edit_bones / pose.bones, in creation order
    constraints,    \* pose-bone constraints, in creation order
    arm_layers,     \* armature.data.layers (the visible layers)
    matrix_world,   \* object -> world transform
    mesh_verts,     \* mesh.data.vertices: [co, select]
    lat_points,     \* lattice.data.points: [co, select]
    modifiers,      \* object -> sequence of modifiers
    vertex_groups,  \* object -> sequence of vertex groups
    active,         \* context.active_object
    selected,       \* context.selected_objects
    mode,           \* object -> OBJECT / EDIT / POSE
    pc,             \* position inside the running operator, "idle" between calls
    loc,            \* the running (or last) operator's options and locals
    pre,            \* the document as it was when the operator was invoked
    status,         \* what the last operator returned
    nops,           \* operators invoked so far
    widget,         \* the mesh handed to the host by the last widget builder
    shape_keys,     \* object -> names of data.shape_keys.key_blocks (<<>>: no shape keys)
    animation_data, \* object -> whether its shape keys have animation data
    drivers,        \* object -> drivers of its shape keys, in creation order
    custom_shape,   \* pose bone name -> custom shape object ("" for none)
    active_bone,    \* context.active_pose_bone ("" for none)
    vg_active,      \* object -> vertex_groups.active_index (-1 for none)
    obj_parent      \* object -> parent object ("" for none)

toolvars == <<shape_keys, animation_data, drivers, custom_shape, active_bone,
              vg_active, obj_parent>>
rigvars == <<bones, constraints, arm_layers, matrix_world, mesh_verts, lat_points,
             modifiers, vertex_groups, active, selected, mode, pc, loc, pre,
             status, nops, toolvars>>
vars == <<bones, constraints, arm_layers, matrix_world, mesh_verts, lat_points,
          modifiers, vertex_groups, active, selected, mode, pc, loc, pre,
          status, nops, widget, toolvars>>

-----------------------------------------------------------------------------
(* Program constants *)

PRF_ROOT == "root-"
PRF_TIP == "tip-"
PRF_HOOK == "hook-"
BBONE_BASE_SIZE == 1
SPOKE_LAYER == 29
AUX_LAYER == 30
HOOK_LAYER == 30
DEFAULT_BASENAME == "spoke"

(* Bounds *)
MaxOps == 2

-----------------------------------------------------------------------------
(* Vectors, positions and world transforms *)

Zero3 == <<0, 0, 0>>
VAdd(a, b) == <<a[1] + b[1], a[2] + b[2], a[3] + b[3]>>
VSub(a, b) == <<a[1] - b[1], a[2] - b[2], a[3] - b[3]>>
Abs(n) == IF n < 0 THEN -n ELSE n

Exact(v) == [at |-> v, off |-> 0, dir |-> Zero3]
PosAdd(p, v) == [p EXCEPT !.at = VAdd(@, v)]
PosAlong(p, k, d) ==
    [at |-> p.at, off |-> p.off + k, dir |-> IF p.off + k = 0 THEN Zero3 ELSE d]

MatApply(M, v) == <<M.sx * v[1] + M.tx, v[2], v[3]>>
MatInverted(M) == [sx |-> M.sx, tx |-> -(M.sx * M.tx)]
Identity == [sx |-> 1, tx |-> 0]

-----------------------------------------------------------------------------
(* Host collections *)

Range(s) == {s[i] : i \in 1..Len(s)}
Names(col) == {col[i].name : i \in 1..Len(col)}
Index(col, name) == CHOOSE i \in 1..Len(col) : col[i].name = name
Get(col, name) == col[Index(col, name)]
Put(col, name, item) == [col EXCEPT ![Index(col, name)] = item]

\* The name the host gives a new item: the requested one if it is free,
\* else the first free numbered variant.
unique_name(taken, name) ==
    IF name \notin taken THEN name
    ELSE LET cand(k) == name \o ".00" \o ToString(k)
             k == CHOOSE j \in 1..(Cardinality(taken) + 1) :
                     /\ cand(j) \notin taken
                     /\ \A i \in 1..(j - 1) : cand(i) \in taken
         IN cand(k)

\* armature.data.edit_bones.new(name): the host's defaults for a new edit bone;
\* its layers are the armature's visible layers.
NewEditBone(name, visible) ==
    [name |-> name, head |-> Exact(Zero3), tail |-> Exact(Zero3),
     bbone_x |-> 10, bbone_z |-> 10, layers |-> visible, use_deform |-> TRUE,
     select |-> FALSE, parent |-> "", use_connect |-> FALSE, roll |-> 0]

\* Direction and length of a bone.  The length of an exact bone is taken on
\* axis-parallel offsets only (the offsets the operators give auxiliary bones).
BoneDir(b) ==
    IF b.head.off = 0 /\ b.tail.off = 0 THEN VSub(b.tail.at, b.head.at)
    ELSE IF b.tail.off # 0 THEN b.tail.dir ELSE b.head.dir
BoneLen(b) ==
    IF b.head.off = 0 /\ b.tail.off = 0
    THEN LET d == VSub(b.tail.at, b.head.at) IN Abs(d[1]) + Abs(d[2]) + Abs(d[3])
    ELSE Abs(b.tail.off - b.head.off)

\* EditBone.align_orientation(other): moves the tail so that the bone points
\* the way `other` does, keeping its length, and takes over the roll.
align_orientation(b, other) ==
    [b EXCEPT !.tail = PosAlong(b.head, BoneLen(b), BoneDir(other)),
              !.roll = other.roll]

SelectedNames(bs) ==
    LET sel == SelectSeq(bs, LAMBDA b : b.select)
    IN [i \in 1..Len(sel) |-> sel[i].name]

-----------------------------------------------------------------------------
(* ADH_CreateSpokes *)

\* setup_bone_parent naming the parent in bone.parent without creating it
setup_bone_parent_uncreated(bs, self, visible, bone, parent_bone) ==
    LET create == parent_bone = "" /\ self.parent
        pname == IF create THEN unique_name(Names(bs), PRF_ROOT \o bone)
                 ELSE parent_bone
    IN IF pname # ""
       THEN Put(bs, bone, [Get(bs, bone) EXCEPT !.parent = pname,
                                                !.use_connect = TRUE])
       ELSE bs

\* setup_bone_parent creating the parent bone but leaving bone.parent unset
setup_bone_parent_unlinked(bs, self, visible, bone, parent_bone) ==
    IF parent_bone = "" /\ self.parent
    THEN Append(bs, [NewEditBone(unique_name(Names(bs), PRF_ROOT \o bone), visible) EXCEPT
                        !.head = Get(bs, bone).head, !.tail = Get(bs, bone).head,
                        !.layers = self.aux_layers, !.use_deform = FALSE])
    ELSE bs

setup_bone_parent(bs, self, visible, bone, parent_bone) ==
    LET create == parent_bone = "" /\ self.parent
        b == Get(bs, bone)
        pname == IF create THEN unique_name(Names(bs), PRF_ROOT \o bone)
                 ELSE parent_bone
        p1 == [NewEditBone(pname, visible) EXCEPT
                  !.tail = PosAdd(b.head, <<0, 0, -5>>),
                  !.head = b.head,
                  !.bbone_x = b.bbone_x * 2,
                  !.bbone_z = b.bbone_x * 2,
                  !.layers = self.aux_layers]
        p2 == [align_orientation(p1, b) EXCEPT !.use_deform = FALSE]
        len == BoneLen(p2)
        p3 == [p2 EXCEPT !.head = PosAlong(@, -len, BoneDir(b)),
                         !.tail = PosAlong(@, -len, BoneDir(b))]
        bs1 == IF create THEN Append(bs, p3) ELSE bs
    IN IF pname # ""
       THEN LET bone_parent == b.parent
                bs2 == Put(bs1, bone, [b EXCEPT !.parent = pname,
                                                !.use_connect = TRUE,
                                                !.head = Get(bs1, pname).tail])
            IN Put(bs2, pname, [Get(bs2, pname) EXCEPT !.parent = bone_parent])
       ELSE bs1

setup_bone_tip(bs, self, visible, bone) ==
    IF ~self.tip THEN bs
    ELSE LET b == Get(bs, bone)
             t1 == [NewEditBone(unique_name(Names(bs), PRF_TIP \o bone), visible) EXCEPT
                       !.head = b.tail,
                       !.tail = PosAdd(b.tail, <<5, 0, 0>>),
                       !.bbone_x = b.bbone_x * 2,
                       !.bbone_z = b.bbone_z * 2]
             t2 == [align_orientation(t1, b) EXCEPT
                       !.layers = self.aux_layers,
                       !.use_deform = FALSE]
         IN Append(bs, t2)

setup_bone_constraint(cs, self, armature, bone_name) ==
    IF ~self.tip THEN cs
    ELSE Append(cs, [owner |-> bone_name, type |-> "DAMPED_TRACK",
                     target |-> armature, subtarget |-> PRF_TIP \o bone_name,
                     owner_space |-> "WORLD", target_space |-> "WORLD"])

\* setup_bone with head and tail exchanged
setup_bone_swapped(bs, self, visible, bone_name, head_co, tail_co, parent) ==
    LET actual == unique_name(Names(bs), bone_name)
        b == [NewEditBone(actual, visible) EXCEPT
                 !.head = Exact(tail_co),
                 !.tail = Exact(head_co),
                 !.bbone_x = BBONE_BASE_SIZE,
                 !.bbone_z = BBONE_BASE_SIZE,
                 !.use_deform = TRUE,
                 !.select = TRUE,
                 !.layers = self.spoke_layers]
        bs1 == Append(bs, b)
        bs2 == setup_bone_parent(bs1, self, visible, actual, parent)
    IN setup_bone_tip(bs2, self, visible, actual)

setup_bone(bs, self, visible, bone_name, head_co, tail_co, parent) ==
    LET actual == unique_name(Names(bs), bone_name)
        b == [NewEditBone(actual, visible) EXCEPT
                 !.head = Exact(head_co),
                 !.tail = Exact(tail_co),
                 !.bbone_x = BBONE_BASE_SIZE,
                 !.bbone_z = BBONE_BASE_SIZE,
                 !.use_deform = TRUE,
                 !.select = TRUE,
                 !.layers = self.spoke_layers]
        bs1 == Append(bs, b)
        bs2 == setup_bone_parent(bs1, self, visible, actual, parent)
    IN setup_bone_tip(bs2, self, visible, actual)

set_armature_layers(layers, self) ==
    IF self.parent \/ self.tip
    THEN layers \cup self.spoke_layers \cup self.aux_layers
    ELSE layers \cup self.spoke_layers

get_vertex_coordinates(verts, mesh_mat, armature_mat) ==
    LET sel == SelectSeq(verts, LAMBDA v : v.select)
    IN [i \in 1..Len(sel) |->
           MatApply(MatInverted(armature_mat), MatApply(mesh_mat, sel[i].co))]

spoke_name(self, index) == self.basename \o "." \o ToString(index)

RECURSIVE spokes_constraint_loop(_, _, _, _, _)
\* create_spokes, lines 979-981: for index in range(len(vert_coordinates))
spokes_constraint_loop(cs, self, armature, index, n) ==
    IF index >= n THEN cs
    ELSE spokes_constraint_loop(
             setup_bone_constraint(cs, self, armature, spoke_name(self, index)),
             self, armature, index + 1, n)

RECURSIVE tips_constraint_loop(_, _, _, _)
\* create_spoke_tips, lines 997-998: for bone in context.selected_pose_bones
tips_constraint_loop(cs, self, armature, names) ==
    IF names = <<>> THEN cs
    ELSE tips_constraint_loop(
             setup_bone_constraint(cs, self, armature, Head(names)),
             self, armature, Tail(names))

-----------------------------------------------------------------------------
(* The host document *)

Objects == {"mesh", "rig", "lat"}
TypeOf(o) == CASE o = "mesh" -> "MESH" [] o = "rig" -> "ARMATURE" [] o = "lat" -> "LATTICE"

scene_cursor_location == <<10, 0, 0>>

\* bpy.ops.object.mode_set / editmode_toggle act on the active object
mode_set(m, obj, new_mode) == [m EXCEPT ![obj] = new_mode]
editmode_toggle(m, obj) == [m EXCEPT ![obj] = IF @ = "EDIT" THEN "OBJECT" ELSE "EDIT"]

DefaultSelf ==
    [parent |-> FALSE, tip |-> FALSE, spoke_layers |-> {SPOKE_LAYER},
     aux_layers |-> {AUX_LAYER}, basename |-> DEFAULT_BASENAME,
     hook_layers |-> {HOOK_LAYER}]

\* the options of the binding and masking operators, at their defaults
DefaultOpt ==
    [create_vertex_group |-> FALSE, action |-> "add", only_selected |-> FALSE,
     set_as_parent |-> TRUE]

NoLoc ==
    [op |-> "none", self |-> DefaultSelf, coords |-> <<>>, names |-> <<>>,
     made |-> <<>>, idx |-> 0, parent |-> "", prev_mode |-> "OBJECT",
     prev_lattice_mode |-> "OBJECT", cursor_co |-> Zero3, armature |-> "",
     opt |-> DefaultOpt, prev |-> [op |-> "none", opt |-> DefaultOpt]]

\* the operator called before the one that is starting, and its options
Prev == [op |-> loc.op, opt |-> loc.opt]

Snapshot ==
    [bones |-> bones, constraints |-> constraints, arm_layers |-> arm_layers,
     modifiers |-> modifiers, vertex_groups |-> vertex_groups,
     active |-> active, mode |-> mode, selected |-> selected,
     mesh_verts |-> mesh_verts, lat_points |-> lat_points,
     shape_keys |-> shape_keys, animation_data |-> animation_data,
     drivers |-> drivers, custom_shape |-> custom_shape,
     active_bone |-> active_bone, vg_active |-> vg_active,
     obj_parent |-> obj_parent]

\* What the user can set up before calling an operator: the active object,
\* the selected objects and each object's mode.
Contexts ==
    { [active |-> "mesh", selected |-> {"mesh", "rig"},
       mode |-> [mesh |-> "EDIT", rig |-> "OBJECT", lat |-> "OBJECT"]],
      [active |-> "mesh", selected |-> {"mesh", "rig"},
       mode |-> [mesh |-> "EDIT", rig |-> "POSE", lat |-> "OBJECT"]],
      [active |-> "mesh", selected |-> {"mesh"},
       mode |-> [mesh |-> "EDIT", rig |-> "OBJECT", lat |-> "OBJECT"]],
      [active |-> "mesh", selected |-> {"mesh", "lat"},
       mode |-> [mesh |-> "EDIT", rig |-> "OBJECT", lat |-> "OBJECT"]],
      [active |-> "rig", selected |-> {"rig"},
       mode |-> [mesh |-> "OBJECT", rig |-> "EDIT", lat |-> "OBJECT"]],
      [active |-> "rig", selected |-> {"rig"},
       mode |-> [mesh |-> "OBJECT", rig |-> "POSE", lat |-> "OBJECT"]],
      [active |-> "lat", selected |-> {"lat", "rig"},
       mode |-> [mesh |-> "OBJECT", rig |-> "OBJECT", lat |-> "EDIT"]],
      [active |-> "lat", selected |-> {"lat", "rig"},
       mode |-> [mesh |-> "OBJECT", rig |-> "POSE", lat |-> "OBJECT"]],
      [active |-> "lat", selected |-> {"lat"},
       mode |-> [mesh |-> "OBJECT", rig |-> "OBJECT", lat |-> "EDIT"]],
      [active |-> "lat", selected |-> {"lat", "mesh"},
       mode |-> [mesh |-> "OBJECT", rig |-> "OBJECT", lat |-> "EDIT"]] }

Transforms == {[sx |-> 1, tx |-> 0], [sx |-> 1, tx |-> 300], [sx |-> -1, tx |-> 0]}

InitBones(selA, selB) ==
    << [NewEditBone("A", {0}) EXCEPT
           !.tail = Exact(<<0, 0, 100>>), !.bbone_x = 4, !.bbone_z = 4,
           !.select = selA],
       [NewEditBone("B", {0}) EXCEPT
           !.head = Exact(<<0, 0, 100>>), !.tail = Exact(<<0, 100, 100>>),
           !.bbone_x = 2, !.bbone_z = 3, !.roll = 15, !.parent = "A",
           !.use_connect = TRUE, !.select = selB] >>

InitVerts(s1, s2) ==
    << [co |-> <<100, 0, 0>>, select |-> s1],
       [co |-> <<0, 100, 50>>, select |-> s2] >>

InitPoints(s1, s2, s3) ==
    << [co |-> <<-100, 0, 0>>, select |-> s1],
       [co |-> <<100, 0, 0>>, select |-> s2],
       [co |-> <<0, 0, 100>>, select |-> s3] >>

\* The mesh has a Basis key, keys named after the bones and one named after
\* no bone; the lattice has no shape keys.
InitShapeKeys == [mesh |-> <<"Basis", "A", "B", "C">>, rig |-> <<>>, lat |-> <<>>]
BoneNames == {"A", "B"}

RigInit ==
    /\ \E c \in Contexts :
          /\ active = c.active
          /\ selected = c.selected
          /\ mode = c.mode
          /\ \E s1, s2, s3 \in BOOLEAN :
                /\ bones = IF c.active = "rig" THEN InitBones(s1, s2)
                           ELSE InitBones(FALSE, TRUE)
                /\ mesh_verts = IF c.active = "mesh" THEN InitVerts(s1, s2)
                                ELSE InitVerts(TRUE, TRUE)
                /\ lat_points = IF c.active = "lat" THEN InitPoints(s1, s2, s3)
                                ELSE InitPoints(TRUE, TRUE, TRUE)
                /\ c.active = "rig" => s3 = FALSE
                /\ c.active = "mesh" => s3 = FALSE
          /\ \E ml, ma \in Transforms :
                /\ c.active = "rig" => ml = Identity /\ ma = Identity
                /\ c.active = "mesh" => ml = Identity
                /\ matrix_world = [mesh |-> Identity, rig |-> ma, lat |-> ml]
    /\ constraints = <<>>
    /\ arm_layers = {0}
    /\ modifiers = [o \in Objects |-> <<>>]
    /\ vertex_groups = [o \in Objects |-> <<>>]
    /\ shape_keys = InitShapeKeys
    /\ animation_data = [o \in Objects |-> FALSE]
    /\ drivers = [o \in Objects |-> <<>>]
    /\ custom_shape = [b \in BoneNames |-> ""]
    /\ active_bone = ""
    /\ vg_active = [o \in Objects |-> -1]
    /\ obj_parent = [o \in Objects |-> ""]
    /\ pc = "idle"
    /\ loc = NoLoc
    /\ status = "NONE"
    /\ nops = 0
    /\ pre = Snapshot

\* The user changes the active object, the selection and the modes between
\* two operator calls.
UserSetContext ==
    /\ pc = "idle"
    /\ 0 < nops /\ nops < MaxOps
    /\ \E c \in Contexts :
          /\ <<c.active, c.selected, c.mode>> # <<active, selected, mode>>
          /\ active' = c.active
          /\ selected' = c.selected
          /\ mode' = c.mode
    /\ UNCHANGED <<bones, constraints, arm_layers, matrix_world, mesh_verts,
                   lat_points, modifiers, vertex_groups, pc, loc, pre, status,
                   nops, widget, toolvars>>

-----------------------------------------------------------------------------
(* ADH_CreateSpokes: the operator *)

CreateSpokes_poll ==
    /\ mode[active] \in {"EDIT", "POSE"}
    /\ TypeOf(active) \in {"MESH", "ARMATURE"}
    /\ Cardinality(selected) <= 2

SpokesSelf == {[DefaultSelf EXCEPT !.parent = p, !.tip = t] : p, t \in BOOLEAN}

\* create_spokes up to the loop over the vertex coordinates (lines 955-973)
create_spokes(self, mesh, armature) ==
    LET vert_coordinates ==
            get_vertex_coordinates(mesh_verts, matrix_world[mesh], matrix_world[armature])
        cursor_co == MatApply(MatInverted(matrix_world[armature]), scene_cursor_location)
        m1 == editmode_toggle(mode, mesh)
        prev_mode == m1[armature]
        bs0 == [i \in 1..Len(bones) |-> [bones[i] EXCEPT !.select = FALSE]]
        pname == unique_name(Names(bs0), PRF_ROOT \o self.basename)
        bs1 == IF self.parent
               THEN Append(bs0, [NewEditBone(pname, arm_layers) EXCEPT
                                    !.head = Exact(VAdd(cursor_co, <<0, 0, -100>>)),
                                    !.tail = Exact(cursor_co)])
               ELSE bs0
    IN /\ active' = armature
       /\ mode' = mode_set(m1, armature, "EDIT")
       /\ bones' = bs1
       /\ loc' = [NoLoc EXCEPT !.op = "create_spokes", !.self = self,
                               !.coords = vert_coordinates,
                               !.cursor_co = cursor_co,
                               !.parent = IF self.parent THEN pname ELSE "",
                               !.prev_mode = prev_mode, !.armature = armature]
       /\ pc' = "create_spokes"
       /\ status' = "RUNNING"
       /\ UNCHANGED <<constraints, arm_layers>>

\* create_spoke_tips up to the loop over the selected bones (lines 988-992)
create_spoke_tips(self, armature) ==
    /\ mode' = mode_set(mode, armature, "EDIT")
    /\ loc' = [NoLoc EXCEPT !.op = "create_spoke_tips", !.self = self,
                            !.names = SelectedNames(bones),
                            !.prev_mode = mode[armature], !.armature = armature]
    /\ pc' = "create_spoke_tips"
    /\ status' = "RUNNING"
    /\ UNCHANGED <<active, bones, constraints, arm_layers>>

CreateSpokes_execute ==
    /\ pc = "idle"
    /\ nops < MaxOps
    /\ CreateSpokes_poll
    /\ nops' = nops + 1
    /\ pre' = Snapshot
    /\ \E self \in SpokesSelf, obj2 \in (selected \ {active}) \cup {""} :
          /\ (obj2 = "") <=> (selected \ {active} = {})
          /\ IF /\ TypeOf(active) = "MESH" /\ mode[active] = "EDIT"
                /\ obj2 # "" /\ TypeOf(obj2) = "ARMATURE"
             THEN create_spokes(self, active, obj2)
             ELSE IF TypeOf(active) = "ARMATURE"
             THEN create_spoke_tips(self, active)
             ELSE /\ status' = "CANCELLED"
                  /\ loc' = [NoLoc EXCEPT !.op = "create_spokes_execute", !.self = self]
                  /\ UNCHANGED <<active, mode, bones, constraints, arm_layers, pc>>
    /\ UNCHANGED <<matrix_world, mesh_verts, lat_points, modifiers, vertex_groups,
                   selected, widget, toolvars>>

\* one iteration of the loop of create_spokes (lines 974-976)
create_spokes_loop ==
    /\ pc = "create_spokes"
    /\ loc.idx < Len(loc.coords)
    /\ LET index == loc.idx
           bone_name == spoke_name(loc.self, index)
       IN /\ bones' = setup_bone(bones, loc.self, arm_layers, bone_name,
                                 loc.cursor_co, loc.coords[index + 1], loc.parent)
          /\ loc' = [loc EXCEPT !.idx = @ + 1,
                                !.made = Append(@, unique_name(Names(bones), bone_name))]
    /\ UNCHANGED <<constraints, arm_layers, matrix_world, mesh_verts, lat_points,
                   modifiers, vertex_groups, active, selected, mode, pc, pre,
                   status, nops, widget, toolvars>>

\* the rest of create_spokes (lines 978-986)
create_spokes_return ==
    /\ pc = "create_spokes"
    /\ loc.idx = Len(loc.coords)
    /\ constraints' = spokes_constraint_loop(constraints, loc.self, loc.armature,
                                             0, Len(loc.coords))
    /\ mode' = mode_set(mode_set(mode, active, "POSE"), active, loc.prev_mode)
    /\ arm_layers' = set_armature_layers(arm_layers, loc.self)
    /\ status' = "FINISHED"
    /\ pc' = "idle"
    /\ UNCHANGED <<bones, matrix_world, mesh_verts, lat_points, modifiers,
                   vertex_groups, active, selected, loc, pre, nops, widget, toolvars>>

\* one iteration of the loop of create_spoke_tips (lines 992-994)
create_spoke_tips_loop ==
    /\ pc = "create_spoke_tips"
    /\ loc.idx < Len(loc.names)
    /\ LET bone == loc.names[loc.idx + 1]
           bs1 == setup_bone_parent(bones, loc.self, arm_layers, bone, "")
       IN bones' = setup_bone_tip(bs1, loc.self, arm_layers, bone)
    /\ loc' = [loc EXCEPT !.idx = @ + 1]
    /\ UNCHANGED <<constraints, arm_layers, matrix_world, mesh_verts, lat_points,
                   modifiers, vertex_groups, active, selected, mode, pc, pre,
                   status, nops, widget, toolvars>>

\* the rest of create_spoke_tips (lines 996-1003)
create_spoke_tips_return ==
    /\ pc = "create_spoke_tips"
    /\ loc.idx = Len(loc.names)
    /\ constraints' = tips_constraint_loop(constraints, loc.self, loc.armature,
                                           SelectedNames(bones))
    /\ mode' = mode_set(mode_set(mode, active, "POSE"), active, loc.prev_mode)
    /\ arm_layers' = set_armature_layers(arm_layers, loc.self)
    /\ status' = "FINISHED"
    /\ pc' = "idle"
    /\ UNCHANGED <<bones, matrix_world, mesh_verts, lat_points, modifiers,
                   vertex_groups, active, selected, loc, pre, nops, widget, toolvars>>

-----------------------------------------------------------------------------
(* ADH_CreateHooks *)

NewModifier(name, type) ==
    [name |-> name, type |-> type, object |-> "", subtarget |-> "",
     vertex_group |-> "", points |-> {}, show_expanded |-> TRUE,
     show_render |-> TRUE]

setup_copy_constraint(cs, armature, bone_name) ==
    Append(cs, [owner |-> bone_name, type |-> "COPY_TRANSFORMS",
                target |-> armature, subtarget |-> PRF_HOOK \o bone_name,
                owner_space |-> "LOCAL", target_space |-> "LOCAL"])

global_lat_point_co(p, lattice_mat, armature_mat_inv) ==
    MatApply(armature_mat_inv, MatApply(lattice_mat, p))

get_selected_points(points) ==
    SelectSeq([i \in 1..Len(points) |->
                  [index |-> i, co |-> points[i].co, select |-> points[i].select]],
              LAMBDA q : q.select)

\* lines 749-750; `point` is an element of bone_pos
hook_suffix(point, lattice_mat, armature_mat_inv) ==
    IF global_lat_point_co(point, lattice_mat, armature_mat_inv)[1] < 0 THEN ".R"
    ELSE IF point[1] > 0 THEN ".L" ELSE ""

\* lines 746-751
hook_bone_name(lattice, index, point, lattice_mat, armature_mat_inv) ==
    PRF_HOOK \o lattice \o "." \o ToString(index)
        \o hook_suffix(point, lattice_mat, armature_mat_inv)

\* lines 757-764
lattice_hook_bone(bs, self, visible, bone_name, point_co) ==
    Append(bs, [NewEditBone(unique_name(Names(bs), bone_name), visible) EXCEPT
                   !.head = Exact(point_co),
                   !.tail = Exact(VAdd(point_co, <<0, 0, BBONE_BASE_SIZE * 5>>)),
                   !.bbone_x = BBONE_BASE_SIZE,
                   !.bbone_z = BBONE_BASE_SIZE,
                   !.layers = self.hook_layers,
                   !.use_deform = FALSE])

\* lines 793-802
bone_hook_bone(bs, self, visible, bone) ==
    LET b == Get(bs, bone)
    IN Append(bs, [NewEditBone(unique_name(Names(bs), PRF_HOOK \o bone), visible) EXCEPT
                      !.head = b.head,
                      !.tail = b.tail,
                      !.bbone_x = b.bbone_x * 2,
                      !.bbone_z = b.bbone_z * 2,
                      !.layers = self.hook_layers,
                      !.use_deform = FALSE,
                      !.roll = b.roll,
                      !.parent = b.parent])

RECURSIVE lattice_modifier_loop(_, _, _, _, _)
\* lines 774-782: one hook modifier per selected point; hook_assign binds the
\* selected point to the modifier that carries the name bone_name
lattice_modifier_loop(mods, armature, sel_points, bone_names, i) ==
    IF i > Len(sel_points) THEN mods
    ELSE LET bone_name == bone_names[i]
             mod == [NewModifier(unique_name(Names(mods), bone_name), "HOOK") EXCEPT
                        !.object = armature, !.subtarget = bone_name]
             mods1 == Append(mods, mod)
             mods2 == Put(mods1, bone_name,
                          [Get(mods1, bone_name) EXCEPT !.points = {sel_points[i].index}])
         IN lattice_modifier_loop(mods2, armature, sel_points, bone_names, i + 1)

RECURSIVE copy_constraint_loop(_, _, _)
\* lines 804-805
copy_constraint_loop(cs, armature, names) ==
    IF names = <<>> THEN cs
    ELSE copy_constraint_loop(setup_copy_constraint(cs, armature, Head(names)),
                              armature, Tail(names))

CreateHooks_poll == TypeOf(active) \in {"ARMATURE", "LATTICE"}

HooksSelf == {DefaultSelf}

\* hook_on_lattice up to the loop that creates the bones (lines 728-755).
\* With an obj2 that is no armature the first access to armature.data.edit_bones
\* or armature.data.layers raises.
hook_on_lattice(self, lattice, armature) ==
    LET prev_lattice_mode == mode[lattice]
        m1 == mode_set(mode, active, "OBJECT")
        armature_mat_inv == MatInverted(matrix_world[armature])
        lattice_mat == matrix_world[lattice]
        lattice_pos == get_selected_points(lat_points)
        bone_pos == [i \in 1..Len(lattice_pos) |->
                        global_lat_point_co(lattice_pos[i].co, lattice_mat, armature_mat_inv)]
        bone_names == [i \in 1..Len(bone_pos) |->
                          hook_bone_name(lattice, i - 1, bone_pos[i],
                                         lattice_mat, armature_mat_inv)]
    IN /\ active' = armature
       /\ mode' = mode_set(m1, armature, "EDIT")
       /\ loc' = [NoLoc EXCEPT !.op = "hook_on_lattice", !.self = self,
                               !.coords = bone_pos, !.names = bone_names,
                               !.prev_mode = m1[armature],
                               !.prev_lattice_mode = prev_lattice_mode,
                               !.armature = armature]
       /\ IF TypeOf(armature) = "ARMATURE"
          THEN pc' = "hook_on_lattice" /\ status' = "RUNNING"
          ELSE pc' = "idle" /\ status' = "ERROR"
       /\ UNCHANGED <<bones, constraints, arm_layers, modifiers>>

\* hook_on_bone up to the loop over the selected bones (lines 789-792)
hook_on_bone(self, armature) ==
    /\ mode' = mode_set(mode, active, "EDIT")
    /\ loc' = [NoLoc EXCEPT !.op = "hook_on_bone", !.self = self,
                            !.names = SelectedNames(bones),
                            !.prev_mode = mode[armature], !.armature = armature]
    /\ pc' = "hook_on_bone"
    /\ status' = "RUNNING"
    /\ UNCHANGED <<active, bones, constraints, arm_layers, modifiers>>

CreateHooks_execute ==
    /\ pc = "idle"
    /\ nops < MaxOps
    /\ CreateHooks_poll
    /\ nops' = nops + 1
    /\ pre' = Snapshot
    /\ \E self \in HooksSelf, obj2 \in (selected \ {active}) \cup {""} :
          /\ (obj2 = "") <=> (selected \ {active} = {})
          /\ IF TypeOf(active) = "LATTICE"
             THEN IF obj2 = ""
                  THEN /\ status' = "CANCELLED"
                       /\ loc' = [NoLoc EXCEPT !.op = "create_hooks_execute",
                                               !.self = self]
                       /\ UNCHANGED <<active, mode, bones, constraints, arm_layers,
                                      modifiers, pc>>
                  ELSE hook_on_lattice(self, active, obj2)
             ELSE hook_on_bone(self, active)
    /\ UNCHANGED <<matrix_world, mesh_verts, lat_points, vertex_groups, selected,
                   widget, toolvars>>

\* one iteration of the bone loop of hook_on_lattice (lines 756-764)
hook_on_lattice_loop ==
    /\ pc = "hook_on_lattice"
    /\ loc.idx < Len(loc.coords)
    /\ LET bone_name == loc.names[loc.idx + 1]
       IN /\ bones' = lattice_hook_bone(bones, loc.self, arm_layers, bone_name,
                                        loc.coords[loc.idx + 1])
          /\ loc' = [loc EXCEPT !.idx = @ + 1,
                                !.made = Append(@, unique_name(Names(bones), bone_name))]
    /\ UNCHANGED <<constraints, arm_layers, matrix_world, mesh_verts, lat_points,
                   modifiers, vertex_groups, active, selected, mode, pc, pre,
                   status, nops, widget, toolvars>>

\* the rest of hook_on_lattice (lines 765-787)
hook_on_lattice_return ==
    /\ pc = "hook_on_lattice"
    /\ loc.idx = Len(loc.coords)
    /\ arm_layers' = arm_layers \cup loc.self.hook_layers
    /\ active' = "lat"
    /\ mode' = LET m1 == mode_set(mode, loc.armature, loc.prev_mode)
                   m2 == mode_set(m1, "lat", "EDIT")
               IN mode_set(m2, "lat", loc.prev_lattice_mode)
    /\ modifiers' = [modifiers EXCEPT !["lat"] =
                        lattice_modifier_loop(@, loc.armature,
                                              get_selected_points(lat_points),
                                              loc.names, 1)]
    /\ status' = "FINISHED"
    /\ pc' = "idle"
    /\ UNCHANGED <<bones, constraints, matrix_world, mesh_verts, lat_points,
                   vertex_groups, selected, loc, pre, nops, widget, toolvars>>

\* one iteration of the bone loop of hook_on_bone (lines 792-802)
hook_on_bone_loop ==
    /\ pc = "hook_on_bone"
    /\ loc.idx < Len(loc.names)
    /\ LET bone == loc.names[loc.idx + 1]
       IN /\ bones' = bone_hook_bone(bones, loc.self, arm_layers, bone)
          /\ loc' = [loc EXCEPT !.idx = @ + 1,
                                !.made = Append(@, unique_name(Names(bones),
                                                               PRF_HOOK \o bone))]
    /\ UNCHANGED <<constraints, arm_layers, matrix_world, mesh_verts, lat_points,
                   modifiers, vertex_groups, active, selected, mode, pc, pre,
                   status, nops, widget, toolvars>>

\* the rest of hook_on_bone (lines 803-808)
hook_on_bone_return ==
    /\ pc = "hook_on_bone"
    /\ loc.idx = Len(loc.names)
    /\ constraints' = copy_constraint_loop(constraints, loc.armature,
                                           SelectedNames(bones))
    /\ mode' = mode_set(mode_set(mode, active, "POSE"), active, loc.prev_mode)
    /\ status' = "FINISHED"
    /\ pc' = "idle"
    /\ UNCHANGED <<bones, arm_layers, matrix_world, mesh_verts, lat_points,
                   modifiers, vertex_groups, active, selected, loc, pre, nops,
                   widget, toolvars>>

-----------------------------------------------------------------------------
(* ADH_MapShapeKeysToBones *)

\* "%0.1f" % (n / d) for the quotients used here (d divides 10 * n)
format_1f(n, d) ==
    LET tenths == (10 * Abs(n)) \div Abs(d)
        sign == IF (n < 0) # (d < 0) /\ tenths # 0 THEN "-" ELSE ""
    IN sign \o ToString(tenths \div 10) \o "." \o ToString(tenths % 10)

\* lines 1193-1194; slider_distance in units of 0.01
slider_formula(slider_distance) ==
    IF slider_distance # 0 THEN "a * " \o format_1f(100, slider_distance) ELSE "a"

SliderAxes == {"LOC_X", "LOC_Z"}
SliderDistances == {0, 20}

shape_data_path(shape) == "key_blocks[\"" \o shape \o "\"].value"

DriverPaths(drvs) == {drvs[i].data_path : i \in 1..Len(drvs)}
DriverIndex(drvs, path) == CHOOSE i \in 1..Len(drvs) : drvs[i].data_path = path

\* mesh_keys.driver_add(data_path): the driver of that path, created when the
\* path has none
driver_add(drvs, path) ==
    IF path \in DriverPaths(drvs) THEN drvs
    ELSE Append(drvs, [data_path |-> path, variables |-> <<>>,
                       type |-> "AVERAGE", expression |-> ""])

NewDriverVariable ==
    [name |-> "var", type |-> "SINGLE_PROP", id |-> "", bone_target |-> "",
     transform_space |-> "WORLD_SPACE", transform_type |-> "LOC_X"]

\* map_shape_key giving the driver a new variable on every call
map_shape_key_new_variable(drvs, armature, shape, slider_axis, formula) ==
    LET drvs1 == driver_add(drvs, shape_data_path(shape))
        k == DriverIndex(drvs1, shape_data_path(shape))
        fc == drvs1[k]
        dv == [NewDriverVariable EXCEPT
                  !.name = "a", !.type = "TRANSFORMS", !.id = armature,
                  !.bone_target = shape, !.transform_space = "LOCAL_SPACE",
                  !.transform_type = slider_axis]
    IN [drvs1 EXCEPT ![k] = [fc EXCEPT !.variables = Append(@, dv),
                                       !.type = "SCRIPTED",
                                       !.expression = formula]]

\* lines 1202-1218, for one shape key
map_shape_key(drvs, armature, shape, slider_axis, formula) ==
    LET drvs1 == driver_add(drvs, shape_data_path(shape))
        k == DriverIndex(drvs1, shape_data_path(shape))
        fc == drvs1[k]
        vs == IF Len(fc.variables) > 0 THEN fc.variables
              ELSE <<NewDriverVariable>>
        dv == [vs[1] EXCEPT !.name = "a", !.type = "TRANSFORMS", !.id = armature,
                            !.bone_target = shape,
                            !.transform_space = "LOCAL_SPACE",
                            !.transform_type = slider_axis]
    IN [drvs1 EXCEPT ![k] = [fc EXCEPT !.variables = [vs EXCEPT ![1] = dv],
                                       !.type = "SCRIPTED",
                                       !.expression = formula]]

\* line 1198-1199: the bone named after the shape key exists and is selected
bone_selected(bs, name) == name \in Names(bs) /\ Get(bs, name).select

RECURSIVE map_shape_keys_loop(_, _, _, _, _, _, _)
\* lines 1195-1218: for shape in mesh_keys.key_blocks
map_shape_keys_loop(drvs, bs, armature, key_blocks, i, slider_axis, formula) ==
    IF i > Len(key_blocks) THEN drvs
    ELSE LET shape == key_blocks[i]
             skip == i = 1 \/ ~bone_selected(bs, shape)
         IN map_shape_keys_loop(
                IF skip THEN drvs
                ELSE map_shape_key(drvs, armature, shape, slider_axis, formula),
                bs, armature, key_blocks, i + 1, slider_axis, formula)

MapShapeKeys_poll ==
    /\ TypeOf(active) \in {"MESH", "LATTICE"}
    /\ Cardinality(selected) = 2

\* execute; context.selected_objects comes in an order the host chooses.  A
\* mesh or lattice without shape keys has data.shape_keys = None, and line
\* 1190 raises.
MapShapeKeys_execute ==
    /\ pc = "idle"
    /\ nops < MaxOps
    /\ MapShapeKeys_poll
    /\ nops' = nops + 1
    /\ pre' = Snapshot
    /\ \E obj1, obj2 \in selected, slider_axis \in SliderAxes,
          slider_distance \in SliderDistances :
          /\ obj1 # obj2
          /\ LET swap == TypeOf(obj2) \in {"MESH", "LATTICE"}
                 mesh == IF swap THEN obj2 ELSE obj1
                 armature == IF swap THEN obj1 ELSE obj2
             IN /\ loc' = [NoLoc EXCEPT !.prev = Prev, !.op = "map_shape_keys",
                                        !.armature = armature,
                                        !.names = <<obj1, obj2>>]
                /\ IF TypeOf(armature) # "ARMATURE"
                   THEN /\ status' = "CANCELLED"
                        /\ UNCHANGED <<animation_data, drivers>>
                   ELSE IF shape_keys[mesh] = <<>>
                   THEN /\ status' = "ERROR"
                        /\ UNCHANGED <<animation_data, drivers>>
                   ELSE /\ status' = "FINISHED"
                        /\ animation_data' = [animation_data EXCEPT ![mesh] = TRUE]
                        /\ drivers' = [drivers EXCEPT ![mesh] =
                               map_shape_keys_loop(@, bones, armature, shape_keys[mesh],
                                                   1, slider_axis,
                                                   slider_formula(slider_distance))]
    /\ UNCHANGED <<bones, constraints, arm_layers, matrix_world, mesh_verts,
                   lat_points, modifiers, vertex_groups, active, selected, mode,
                   pc, widget, shape_keys, custom_shape, active_bone, vg_active,
                   obj_parent>>

-----------------------------------------------------------------------------
(* Host collections of an object: modifiers and vertex groups *)

MASK_NAME == "Z_ADH_MASK"

Remove(col, i) == [j \in 1..(Len(col) - 1) |-> IF j < i THEN col[j] ELSE col[j + 1]]

\* item.name = name: the host keeps the names of a collection unique
rename(col, i, name) ==
    [col EXCEPT ![i].name = unique_name(Names(Remove(col, i)), name)]

NewVertexGroup(name) == [name |-> name, lock_weight |-> FALSE, verts |-> {}]

\* vertex_groups.new(name=...)
vertex_groups_new(vgs, name) == Append(vgs, NewVertexGroup(unique_name(Names(vgs), name)))

\* vertex_groups.active_index after the group at position i (from 1) is removed
active_index_after_remove(act, i, remaining) ==
    IF remaining = 0 THEN -1
    ELSE LET a == IF act >= i - 1 THEN act - 1 ELSE act
         IN IF a < 0 THEN 0 ELSE a

\* context.selected_pose_bones
selected_pose_bones(bs) == SelectedNames(bs)

SelectedMeshes == {o \in selected : TypeOf(o) = "MESH"}

-----------------------------------------------------------------------------
(* ADH_UseSameCustomShape *)

UseSameCustomShape_poll == active_bone # ""

\* execute, lines 82-95
UseSameCustomShape_execute ==
    /\ pc = "idle"
    /\ nops < MaxOps
    /\ UseSameCustomShape_poll
    /\ nops' = nops + 1
    /\ pre' = Snapshot
    /\ LET shape0 == custom_shape[active_bone]
           shape == IF SelectedMeshes # {} THEN CHOOSE o \in SelectedMeshes : TRUE
                    ELSE shape0
           sel == Range(selected_pose_bones(bones))
       IN custom_shape' = [b \in DOMAIN custom_shape |->
                              IF b \in sel THEN shape ELSE custom_shape[b]]
    /\ status' = "FINISHED"
    /\ loc' = [NoLoc EXCEPT !.prev = Prev, !.op = "use_same_custom_shape"]
    /\ UNCHANGED <<bones, constraints, arm_layers, matrix_world, mesh_verts,
                   lat_points, modifiers, vertex_groups, active, selected, mode,
                   pc, widget, shape_keys, animation_data, drivers, active_bone,
                   vg_active, obj_parent>>

-----------------------------------------------------------------------------
(* ADH_BindToLattice *)

BindToLattice_poll == TypeOf(active) = "LATTICE" /\ selected # {}

\* the positions of the lattice modifiers of `mods` that use `lattice`
lm_possibles(mods, lattice) ==
    SelectSeq([i \in 1..Len(mods) |-> i],
              LAMBDA i : mods[i].type = "LATTICE" /\ mods[i].object = lattice)

\* bind_lattice_modifier adding a modifier whether or not one exists
bind_lattice_modifier_always_new(mods, lattice) ==
    LET mods1 == Append(mods, [NewModifier(unique_name(Names(mods), lattice),
                                           "LATTICE") EXCEPT !.object = lattice])
    IN [mods |-> [mods1 EXCEPT ![Len(mods1)].show_expanded = FALSE], lm |-> Len(mods1)]

\* lines 561-570: the modifiers of one object, and the position of lm
bind_lattice_modifier(mods, lattice) ==
    LET poss == lm_possibles(mods, lattice)
        mods1 == IF poss # <<>> THEN rename(mods, poss[1], lattice)
                 ELSE Append(mods, [NewModifier(unique_name(Names(mods), lattice),
                                                "LATTICE") EXCEPT !.object = lattice])
        k == IF poss # <<>> THEN poss[1] ELSE Len(mods1)
    IN [mods |-> [mods1 EXCEPT ![k].show_expanded = FALSE], lm |-> k]

\* lines 572-574
bind_lattice_vertex_group(vgs, lattice) ==
    IF lattice \in Names(vgs) THEN vgs ELSE vertex_groups_new(vgs, lattice)

\* execute, lines 556-577, for the selected mesh objects
BindToLattice_execute ==
    /\ pc = "idle"
    /\ nops < MaxOps
    /\ BindToLattice_poll
    /\ nops' = nops + 1
    /\ pre' = Snapshot
    /\ \E create_vertex_group \in BOOLEAN :
          LET lattice == active
              bound(o) == bind_lattice_modifier(modifiers[o], lattice)
          IN /\ vertex_groups' =
                   [o \in Objects |->
                       IF o \in SelectedMeshes /\ create_vertex_group
                       THEN bind_lattice_vertex_group(vertex_groups[o], lattice)
                       ELSE vertex_groups[o]]
             /\ modifiers' =
                   [o \in Objects |->
                       IF o \notin SelectedMeshes THEN modifiers[o]
                       ELSE IF create_vertex_group
                       THEN [bound(o).mods EXCEPT ![bound(o).lm].vertex_group = lattice]
                       ELSE bound(o).mods]
             /\ vg_active' =
                   [o \in Objects |->
                       IF /\ o \in SelectedMeshes /\ create_vertex_group
                          /\ lattice \notin Names(vertex_groups[o])
                       THEN Len(vertex_groups[o]) ELSE vg_active[o]]
             /\ loc' = [NoLoc EXCEPT !.prev = Prev, !.op = "bind_to_lattice",
                                     !.opt.create_vertex_group = create_vertex_group]
    /\ status' = "FINISHED"
    /\ UNCHANGED <<bones, constraints, arm_layers, matrix_world, mesh_verts,
                   lat_points, active, selected, mode, pc, widget, shape_keys,
                   animation_data, drivers, custom_shape, active_bone, obj_parent>>

-----------------------------------------------------------------------------
(* ADH_ApplyLattices *)

ApplyLattices_poll ==
    /\ mode[active] = "OBJECT"
    /\ selected # {}
    /\ TypeOf(active) = "MESH"

\* apply_lattices_loop stopping after the first lattice modifier it applies
apply_lattices_first_only(mods, i) ==
    LET lats == {j \in i..Len(mods) : mods[j].type = "LATTICE"}
        first == CHOOSE j \in lats : \A k \in lats : j <= k
    IN IF lats = {} THEN [mods |-> mods, raised |-> FALSE]
       ELSE IF mods[first].object = "" THEN [mods |-> mods, raised |-> TRUE]
       ELSE [mods |-> Remove(mods, first), raised |-> FALSE]

RECURSIVE apply_lattices_loop(_, _)
\* lines 598-600: for m in obj.modifiers.  The host's iterator has moved on
\* to the successor of m before the body runs, so applying (and thereby
\* removing) m leaves the successor at position i.  modifier_apply refuses a
\* lattice modifier without an object ("Modifier is disabled"), which raises.
apply_lattices_loop(mods, i) ==
    IF i > Len(mods) THEN [mods |-> mods, raised |-> FALSE]
    ELSE IF mods[i].type # "LATTICE" THEN apply_lattices_loop(mods, i + 1)
    ELSE IF mods[i].object = "" THEN [mods |-> mods, raised |-> TRUE]
    ELSE apply_lattices_loop(Remove(mods, i), i)

\* execute, lines 592-602
ApplyLattices_execute ==
    /\ pc = "idle"
    /\ nops < MaxOps
    /\ ApplyLattices_poll
    /\ nops' = nops + 1
    /\ pre' = Snapshot
    /\ LET obj == active
           r == apply_lattices_loop(modifiers[obj], 1)
       IN /\ shape_keys' = [shape_keys EXCEPT ![obj] = <<>>]
          /\ animation_data' = [animation_data EXCEPT ![obj] = FALSE]
          /\ drivers' = [drivers EXCEPT ![obj] = <<>>]
          /\ modifiers' = [modifiers EXCEPT ![obj] = r.mods]
          /\ status' = IF r.raised THEN "ERROR" ELSE "FINISHED"
    /\ loc' = [NoLoc EXCEPT !.prev = Prev, !.op = "apply_lattices"]
    /\ UNCHANGED <<bones, constraints, arm_layers, matrix_world, mesh_verts,
                   lat_points, vertex_groups, active, selected, mode, pc, widget,
                   custom_shape, active_bone, vg_active, obj_parent>>

-----------------------------------------------------------------------------
(* ADH_AbstractMaskOperator / ADH_MaskSelectedVertices *)

MaskOperator_poll == TypeOf(active) = "MESH"

\* save_vg, lines 615-616: vertex_groups.active, "" for None
save_vg(vgs, act) == IF act >= 0 /\ act < Len(vgs) THEN vgs[act + 1].name ELSE ""

\* restore_vg, lines 618-620
restore_vg(vgs, act, orig_vg) ==
    IF orig_vg # "" THEN Index(vgs, orig_vg) - 1 ELSE act

\* setup_mask_modifier, lines 622-629; modifiers.get returns the modifier
\* that carries exactly the name MASK_NAME
setup_mask_modifier(mods) ==
    LET found == MASK_NAME \in Names(mods) /\ Get(mods, MASK_NAME).type = "MASK"
        mods1 == IF found THEN mods
                 ELSE Append(mods, NewModifier(unique_name(Names(mods), MASK_NAME),
                                               "MASK"))
        k == IF found THEN Index(mods, MASK_NAME) ELSE Len(mods1)
    IN [mods1 EXCEPT ![k].show_render = FALSE,
                     ![k].show_expanded = FALSE,
                     ![k].vertex_group = MASK_NAME]

\* the indices (from 0) of the selected vertices, line 686
selected_vert_indices(verts) == {i - 1 : i \in {j \in 1..Len(verts) : verts[j].select}}
all_vert_indices(verts) == {i - 1 : i \in 1..Len(verts)}

\* lines 675-697: the mask vertex group after the action
mask_vertex_groups(vgs, verts, action) ==
    LET vgs1 == IF MASK_NAME \in Names(vgs) THEN vgs
                ELSE vertex_groups_new(vgs, MASK_NAME)
        k == Index(vgs1, MASK_NAME)
        vgs2 == IF action = "invert"
                THEN [vgs1 EXCEPT ![k].verts = all_vert_indices(verts) \ @]
                ELSE vgs1
        sel == selected_vert_indices(verts)
    IN CASE action = "add" -> [vgs2 EXCEPT ![k].verts = @ \cup sel]
         [] action = "remove" -> [vgs2 EXCEPT ![k].verts = @ \ sel]
         [] OTHER -> vgs2

MaskActions == {"add", "remove", "invert"}

\* invoke, lines 666-701
MaskSelectedVertices_invoke ==
    /\ pc = "idle"
    /\ nops < MaxOps
    /\ MaskOperator_poll
    /\ nops' = nops + 1
    /\ pre' = Snapshot
    /\ \E action \in MaskActions :
          LET mesh == active
              orig_vg == save_vg(vertex_groups[mesh], vg_active[mesh])
              vgs == mask_vertex_groups(vertex_groups[mesh], mesh_verts, action)
              mask_index == Index(vgs, MASK_NAME) - 1
          IN /\ vertex_groups' = [vertex_groups EXCEPT ![mesh] = vgs]
             /\ modifiers' = [modifiers EXCEPT ![mesh] = setup_mask_modifier(@)]
             /\ vg_active' = [vg_active EXCEPT ![mesh] =
                                 restore_vg(vgs, mask_index, orig_vg)]
             /\ loc' = [NoLoc EXCEPT !.prev = Prev, !.op = "mask_selected_vertices",
                                     !.opt.action = action]
    /\ status' = "FINISHED"
    /\ UNCHANGED <<bones, constraints, arm_layers, matrix_world, mesh_verts,
                   lat_points, active, selected, mode, pc, widget, shape_keys,
                   animation_data, drivers, custom_shape, active_bone, obj_parent>>

-----------------------------------------------------------------------------
(* ADH_RemoveVertexGroupsUnselectedBones *)

\* context.selected_pose_bones is None outside pose mode
RemoveVertexGroups_poll == TypeOf(active) = "ARMATURE" /\ mode[active] = "POSE"

\* remove_unselected stopping after the first group it removes
remove_unselected_once(vgs, act, bone_names, i) ==
    LET removable == {j \in i..Len(vgs) :
                         ~(vgs[j].name \in bone_names \/ vgs[j].lock_weight)}
        first == CHOOSE j \in removable : \A k \in removable : j <= k
    IN IF removable = {} THEN [vgs |-> vgs, act |-> act]
       ELSE [vgs |-> Remove(vgs, first),
             act |-> active_index_after_remove(act, first, Len(vgs) - 1)]

RECURSIVE remove_unselected(_, _, _, _)
\* lines 1069-1071: for vg in obj.vertex_groups.  The host's iterator has
\* moved on to the successor of vg before the body runs, so removing vg
\* leaves the successor at position i.
remove_unselected(vgs, act, bone_names, i) ==
    IF i > Len(vgs) THEN [vgs |-> vgs, act |-> act]
    ELSE IF vgs[i].name \in bone_names \/ vgs[i].lock_weight
    THEN remove_unselected(vgs, act, bone_names, i + 1)
    ELSE remove_unselected(Remove(vgs, i),
                           active_index_after_remove(act, i, Len(vgs) - 1),
                           bone_names, i)

\* execute, lines 1063-1073
RemoveVertexGroups_execute ==
    /\ pc = "idle"
    /\ nops < MaxOps
    /\ RemoveVertexGroups_poll
    /\ nops' = nops + 1
    /\ pre' = Snapshot
    /\ LET bone_names == Range(selected_pose_bones(bones))
           r(o) == remove_unselected(vertex_groups[o], vg_active[o], bone_names, 1)
       IN /\ vertex_groups' = [o \in Objects |->
                                  IF o \in SelectedMeshes THEN r(o).vgs
                                  ELSE vertex_groups[o]]
          /\ vg_active' = [o \in Objects |->
                              IF o \in SelectedMeshes THEN r(o).act ELSE vg_active[o]]
    /\ status' = "FINISHED"
    /\ loc' = [NoLoc EXCEPT !.prev = Prev, !.op = "remove_vertex_groups",
                            !.names = selected_pose_bones(bones)]
    /\ UNCHANGED <<bones, constraints, arm_layers, matrix_world, mesh_verts,
                   lat_points, modifiers, active, selected, mode, pc, widget,
                   shape_keys, animation_data, drivers, custom_shape, active_bone,
                   obj_parent>>

-----------------------------------------------------------------------------
(* ADH_BindToBone *)

BindToBone_poll == Cardinality(selected) >= 2 /\ active_bone # ""

\* bind_armature_modifier adding a modifier whether or not one exists
bind_armature_modifier_always_new(mods, armature) ==
    Append(mods, [NewModifier(unique_name(Names(mods), "Armature"), "ARMATURE")
                     EXCEPT !.object = armature])

\* lines 1104-1108
bind_armature_modifier(mods, armature) ==
    IF \E i \in 1..Len(mods) : mods[i].type = "ARMATURE" /\ mods[i].object = armature
    THEN mods
    ELSE Append(mods, [NewModifier(unique_name(Names(mods), "Armature"), "ARMATURE")
                          EXCEPT !.object = armature])

\* lines 1113-1122
bind_vertex_group(vgs, verts, bone, only_selected) ==
    LET vertex_indices == IF only_selected THEN selected_vert_indices(verts)
                          ELSE all_vert_indices(verts)
        others == [i \in 1..Len(vgs) |->
                      IF vgs[i].name = bone THEN vgs[i]
                      ELSE [vgs[i] EXCEPT !.verts = @ \ vertex_indices]]
        vgs1 == IF bone \in Names(others) THEN others
                ELSE vertex_groups_new(others, bone)
    IN [vgs1 EXCEPT ![Index(vgs1, bone)].verts = @ \cup vertex_indices]

\* execute, lines 1099-1124 (invoke sets only_selected from the shift key)
BindToBone_execute ==
    /\ pc = "idle"
    /\ nops < MaxOps
    /\ BindToBone_poll
    /\ nops' = nops + 1
    /\ pre' = Snapshot
    /\ \E only_selected, set_as_parent \in BOOLEAN :
          LET armature == active
              bone == active_bone
          IN /\ modifiers' = [o \in Objects |->
                                 IF o \in SelectedMeshes
                                 THEN bind_armature_modifier(modifiers[o], armature)
                                 ELSE modifiers[o]]
             /\ obj_parent' = [o \in Objects |->
                                  IF o \in SelectedMeshes /\ set_as_parent
                                  THEN armature ELSE obj_parent[o]]
             /\ vertex_groups' = [o \in Objects |->
                                     IF o \in SelectedMeshes
                                     THEN bind_vertex_group(vertex_groups[o], mesh_verts,
                                                            bone, only_selected)
                                     ELSE vertex_groups[o]]
             /\ vg_active' = [o \in Objects |->
                                 IF o \in SelectedMeshes /\ bone \notin Names(vertex_groups[o])
                                 THEN Len(vertex_groups[o]) ELSE vg_active[o]]
             /\ loc' = [NoLoc EXCEPT !.prev = Prev, !.op = "bind_to_bone", !.armature = armature,
                                     !.opt.only_selected = only_selected,
                                     !.opt.set_as_parent = set_as_parent]
    /\ status' = "FINISHED"
    /\ UNCHANGED <<bones, constraints, arm_layers, matrix_world, mesh_verts,
                   lat_points, active, selected, mode, pc, widget, shape_keys,
                   animation_data, drivers, custom_shape, active_bone>>

-----------------------------------------------------------------------------
(* The rig operators as a state machine *)

\* No widget: the value None of execute's local variable widget, and a scene
\* without widget objects. obj is the widget object ("" for None), objects
\* the widget objects of the scene.
NoWidget == [shape |-> "none", size |-> 0, pos |-> 0, rot |-> 0,
             verts |-> <<>>, edges |-> <<>>, faces |-> <<>>, mesh |-> <<>>,
             obj |-> "", objects |-> {}]

Init == RigInit /\ widget = NoWidget

Next ==
    \/ UserSetContext
    \/ CreateSpokes_execute
    \/ create_spokes_loop
    \/ create_spokes_return
    \/ create_spoke_tips_loop
    \/ create_spoke_tips_return
    \/ CreateHooks_execute
    \/ hook_on_lattice_loop
    \/ hook_on_lattice_return
    \/ hook_on_bone_loop
    \/ hook_on_bone_return
    \/ MapShapeKeys_execute

Spec == Init /\ [][Next]_vars

-----------------------------------------------------------------------------
(* The binding and masking operators as a state machine *)

LatticeModifier(name, object) == [NewModifier(name, "LATTICE") EXCEPT !.object = object]
ArmatureModifier(name, object) == [NewModifier(name, "ARMATURE") EXCEPT !.object = object]
VertexGroup(name, locked, verts) == [name |-> name, lock_weight |-> locked, verts |-> verts]

\* The mesh as the user may have left it: its modifiers, vertex groups and
\* shape keys.
Scenes ==
    { [modifiers |-> <<>>, vertex_groups |-> <<>>, shape_keys |-> <<>>],
      [modifiers |-> <<LatticeModifier("lat", "lat"), LatticeModifier("Lattice", "lat"),
                       ArmatureModifier("Armature", "rig")>>,
       vertex_groups |-> <<VertexGroup("A", FALSE, {0}), VertexGroup("C", FALSE, {1}),
                           VertexGroup("D", FALSE, {}), VertexGroup("B", FALSE, {})>>,
       shape_keys |-> <<"Basis", "A">>],
      [modifiers |-> <<NewModifier(MASK_NAME, "SUBSURF")>>,
       vertex_groups |-> <<VertexGroup("C", TRUE, {}), VertexGroup("lat", FALSE, {1}),
                           VertexGroup(MASK_NAME, FALSE, {0})>>,
       shape_keys |-> <<>>],
      [modifiers |-> <<NewModifier("Subdivision", "SUBSURF"),
                       LatticeModifier("Lattice", "lat"),
                       NewModifier(MASK_NAME, "MASK")>>,
       vertex_groups |-> <<VertexGroup("D", FALSE, {0, 1})>>,
       shape_keys |-> <<"Basis", "A", "B", "C">>],
      [modifiers |-> <<LatticeModifier("Lattice", ""), ArmatureModifier("Armature", "")>>,
       vertex_groups |-> <<VertexGroup("lat", FALSE, {})>>,
       shape_keys |-> <<>>] }

\* The contexts the operators are called in; the armature is in pose mode
\* where it is active.
ToolContexts ==
    { [active |-> "rig", selected |-> {"rig", "mesh"},
       mode |-> [mesh |-> "OBJECT", rig |-> "POSE", lat |-> "OBJECT"]],
      [active |-> "rig", selected |-> {"rig"},
       mode |-> [mesh |-> "OBJECT", rig |-> "POSE", lat |-> "OBJECT"]],
      [active |-> "rig", selected |-> {"rig", "lat"},
       mode |-> [mesh |-> "OBJECT", rig |-> "POSE", lat |-> "OBJECT"]],
      [active |-> "lat", selected |-> {"lat", "mesh"},
       mode |-> [mesh |-> "OBJECT", rig |-> "OBJECT", lat |-> "OBJECT"]],
      [active |-> "lat", selected |-> {"lat"},
       mode |-> [mesh |-> "OBJECT", rig |-> "OBJECT", lat |-> "OBJECT"]],
      [active |-> "mesh", selected |-> {"mesh"},
       mode |-> [mesh |-> "OBJECT", rig |-> "OBJECT", lat |-> "OBJECT"]],
      [active |-> "mesh", selected |-> {"mesh"},
       mode |-> [mesh |-> "EDIT", rig |-> "OBJECT", lat |-> "OBJECT"]] }

BoneSelections == {<<TRUE, TRUE>>, <<TRUE, FALSE>>, <<FALSE, FALSE>>}

ToolsInit ==
    /\ \E c \in ToolContexts :
          /\ active = c.active
          /\ selected = c.selected
          /\ mode = c.mode
          /\ \E sel \in BoneSelections, act \in BoneNames, shape \in {"", "lat"} :
                /\ c.active # "rig" => sel = <<FALSE, FALSE>> /\ act = "A" /\ shape = ""
                /\ bones = InitBones(sel[1], sel[2])
                /\ active_bone = IF c.active = "rig" THEN act ELSE ""
                /\ custom_shape = [A |-> shape, B |-> ""]
    /\ \E sc \in Scenes :
          /\ modifiers = [mesh |-> sc.modifiers, rig |-> <<>>, lat |-> <<>>]
          /\ vertex_groups = [mesh |-> sc.vertex_groups, rig |-> <<>>, lat |-> <<>>]
          /\ shape_keys = [mesh |-> sc.shape_keys, rig |-> <<>>, lat |-> <<>>]
          /\ \E a \in (IF sc.vertex_groups = <<>> THEN {-1}
                       ELSE {0, Len(sc.vertex_groups) - 1}) :
                vg_active = [mesh |-> a, rig |-> -1, lat |-> -1]
    /\ mesh_verts = InitVerts(TRUE, FALSE)
    /\ lat_points = InitPoints(FALSE, FALSE, FALSE)
    /\ matrix_world = [o \in Objects |-> Identity]
    /\ constraints = <<>>
    /\ arm_layers = {0}
    /\ animation_data = [o \in Objects |-> FALSE]
    /\ drivers = [o \in Objects |-> <<>>]
    /\ obj_parent = [o \in Objects |-> ""]
    /\ pc = "idle"
    /\ loc = NoLoc
    /\ status = "NONE"
    /\ nops = 0
    /\ pre = Snapshot
    /\ widget = NoWidget

ToolsNext ==
    \/ UseSameCustomShape_execute
    \/ BindToLattice_execute
    \/ ApplyLattices_execute
    \/ MaskSelectedVertices_invoke
    \/ RemoveVertexGroups_execute
    \/ BindToBone_execute

SpecTools == ToolsInit /\ [][ToolsNext]_vars

-----------------------------------------------------------------------------
(* Properties of Create Spokes and Create Hooks *)

Returned(op) == pc = "idle" /\ status = "FINISHED" /\ loc.op = op
Created == Names(bones) \ Names(pre.bones)
World(o, v) == MatApply(matrix_world[o], v)
SelVerts == SelectSeq(mesh_verts, LAMBDA v : v.select)
SelPoints == SelectSeq(lat_points, LAMBDA q : q.select)
SelBonesBefore == SelectSeq(pre.bones, LAMBDA b : b.select)

\* the bone `name` was created by this call and runs from the 3D cursor to the
\* i-th selected vertex (compared in world coordinates)
SpokeAt(name, i) ==
    /\ name \in Created
    /\ LET b == Get(bones, name)
       IN /\ b.head.off = 0 /\ b.tail.off = 0
          /\ World("rig", b.head.at) = scene_cursor_location
          /\ World("rig", b.tail.at) = World("mesh", SelVerts[i].co)

\* C1 as stated: with the parent option off, Create Spokes on N selected
\* vertices adds exactly N bones, named basename.0 .. basename.(N-1), bone i
\* from the cursor to the i-th selected vertex, whatever the other options.
C1_Original ==
    (Returned("create_spokes") /\ ~loc.self.parent) =>
        /\ Cardinality(Created) = Len(SelVerts)
        /\ \A i \in 1..Len(SelVerts) : SpokeAt(spoke_name(loc.self, i - 1), i)

\* C1 amended: with the parent option off, Create Spokes on N selected vertices
\* adds exactly N spoke bones, and one tip bone per spoke when the tracked-tip
\* option is on; spoke i runs from the cursor to the i-th selected vertex and
\* is named basename.i whenever the armature had no bone of that name.
C1_SpokesPerVertex ==
    (Returned("create_spokes") /\ ~loc.self.parent) =>
        LET N == Len(SelVerts)
        IN /\ Len(loc.made) = N
           /\ Cardinality(Range(loc.made)) = N
           /\ Cardinality(Created) = IF loc.self.tip THEN 2 * N ELSE N
           /\ \A i \in 1..N :
                 /\ SpokeAt(loc.made[i], i)
                 /\ spoke_name(loc.self, i - 1) \notin Names(pre.bones)
                       => loc.made[i] = spoke_name(loc.self, i - 1)

C1_Witness ==
    /\ Returned("create_spokes") /\ ~loc.self.parent /\ loc.self.tip
    /\ Len(SelVerts) = 2
    /\ matrix_world["rig"] # Identity

\* C2 as stated: with the parent option on, Create Spokes creates exactly one
\* parent bone, named root-<basename>, and every spoke bone has it as parent.
C2_Original ==
    (Returned("create_spokes") /\ loc.self.parent) =>
        LET root == PRF_ROOT \o loc.self.basename
            N == Len(SelVerts)
        IN /\ root \in Created
           /\ Cardinality(Created) = 1 + (IF loc.self.tip THEN 2 * N ELSE N)
           /\ Len(loc.made) = N
           /\ \A i \in 1..N : /\ loc.made[i] \in Created
                              /\ Get(bones, loc.made[i]).parent = root

\* C2 amended: with the parent option on, Create Spokes creates exactly one
\* parent bone besides the spokes (and their tips), named root-<basename>
\* whenever the armature had no bone of that name, and every spoke bone has
\* that bone as its parent.
C2_OneSharedParent ==
    (Returned("create_spokes") /\ loc.self.parent) =>
        LET N == Len(SelVerts)
        IN /\ Len(loc.made) = N
           /\ Cardinality(Range(loc.made)) = N
           /\ Cardinality(Created) = 1 + (IF loc.self.tip THEN 2 * N ELSE N)
           /\ \E root \in Created \ Range(loc.made) :
                 /\ PRF_ROOT \o loc.self.basename \notin Names(pre.bones)
                       => root = PRF_ROOT \o loc.self.basename
                 /\ \A i \in 1..N : /\ loc.made[i] \in Created
                                    /\ Get(bones, loc.made[i]).parent = root

C2_Witness ==
    /\ Returned("create_spokes") /\ loc.self.parent
    /\ Len(SelVerts) = 2
    /\ PRF_ROOT \o loc.self.basename \in Names(pre.bones)

\* the create operator ran on a selection that is empty after filtering
EmptySpokes == loc.op = "create_spokes" /\ Len(SelVerts) = 0
EmptyHooks ==
    \/ loc.op = "hook_on_bone" /\ SelBonesBefore = <<>>
    \/ loc.op = "hook_on_lattice" /\ SelPoints = <<>> /\ TypeOf(loc.armature) = "ARMATURE"
EmptyTips == loc.op = "create_spoke_tips" /\ SelBonesBefore = <<>>

\* C3: Create Spokes with no selected vertex, or Create Hooks with no selected
\* bone or lattice point, leaves the bone count and every object's
\* vertex-group and modifier counts as they were, for every option setting.
C3_EmptySelectionChangesNothing ==
    (pc = "idle" /\ status # "NONE" /\ (EmptySpokes \/ EmptyHooks)) =>
        /\ Len(bones) = Len(pre.bones)
        /\ \A o \in Objects :
              /\ Len(vertex_groups[o]) = Len(pre.vertex_groups[o])
              /\ Len(modifiers[o]) = Len(pre.modifiers[o])

\* C4: a create operator run on a selection that is empty after filtering
\* returns CANCELLED, not FINISHED.
C4_EmptySelectionCancels ==
    (pc = "idle" /\ status # "NONE" /\ (EmptySpokes \/ EmptyHooks \/ EmptyTips)) =>
        status = "CANCELLED"

\* the suffix C5 expects for a point with the lattice-local coordinate co
LocalSuffix(co) == IF co[1] < 0 THEN ".R" ELSE IF co[1] > 0 THEN ".L" ELSE ""

\* C5: for every placement of the lattice and the armature, the hook bone of
\* a selected lattice point is named .R for a negative lattice-local X, .L for
\* a positive one and without suffix for zero.
C5_SuffixFromLocalX ==
    Returned("hook_on_lattice") =>
        /\ Len(loc.made) = Len(SelPoints)
        /\ \A i \in 1..Len(SelPoints) :
              loc.made[i] = PRF_HOOK \o "lat" \o "." \o ToString(i - 1)
                                \o LocalSuffix(SelPoints[i].co)

\* C6: for each selected bone B, Create Hooks creates one non-deforming bone
\* named hook-<B> with B's head, tail and roll, twice its thickness and its
\* parent, and gives B a local-space copy-transforms constraint whose target
\* is the armature and whose sub-target is the hook bone just created.
C6_HookPerBone ==
    Returned("hook_on_bone") =>
        /\ Len(loc.made) = Len(SelBonesBefore)
        /\ Cardinality(Created) = Len(SelBonesBefore)
        /\ \A i \in 1..Len(SelBonesBefore) :
              LET B == SelBonesBefore[i]
                  hook == PRF_HOOK \o B.name
              IN /\ hook \in Created
                 /\ LET h == Get(bones, hook)
                    IN /\ ~h.use_deform
                       /\ h.head = B.head /\ h.tail = B.tail /\ h.roll = B.roll
                       /\ h.bbone_x = 2 * B.bbone_x /\ h.bbone_z = 2 * B.bbone_z
                       /\ h.parent = B.parent
                 /\ \E k \in (Len(pre.constraints) + 1)..Len(constraints) :
                       /\ constraints[k].owner = B.name
                       /\ constraints[k].type = "COPY_TRANSFORMS"
                       /\ constraints[k].owner_space = "LOCAL"
                       /\ constraints[k].target_space = "LOCAL"
                       /\ constraints[k].target = "rig"
                       /\ constraints[k].subtarget = hook

\* C7: every bone that Create Hooks creates, from a bone or from a lattice
\* point, has no parent when the operator finishes.
C7_HooksParentless ==
    (Returned("hook_on_bone") \/ Returned("hook_on_lattice")) =>
        \A n \in Created : Get(bones, n).parent = ""

\* C11: when Create Spokes or Create Hooks, in either path, returns FINISHED,
\* every object is in the mode it had when the operator was invoked and the
\* active object is the one that was active at invocation.
C11_ModesAndActiveRestored ==
    [][(pc # "idle" /\ pc' = "idle" /\ status' = "FINISHED"
          /\ loc.op \in {"create_spokes", "create_spoke_tips",
                         "hook_on_lattice", "hook_on_bone"}) =>
          /\ \A o \in Objects : mode'[o] = pre.mode[o]
          /\ active' = pre.active]_vars

\* the operator was called with a binding target of the wrong type
WrongTypeHooks ==
    /\ loc.op = "hook_on_lattice"
    /\ TypeOf(pre.active) = "LATTICE"
    /\ TypeOf(loc.armature) # "ARMATURE"
WrongTypeSpokes ==
    /\ loc.op = "create_spokes_execute"
    /\ TypeOf(pre.active) = "MESH"
    /\ \A o \in pre.selected \ {pre.active} : TypeOf(o) # "ARMATURE"
WrongTypeMap ==
    /\ loc.op = "map_shape_keys"
    /\ \A o \in pre.selected : TypeOf(o) # "ARMATURE"

\* C12: Create Hooks on a lattice whose other selected object is no armature,
\* Create Spokes on a mesh whose other selected object is absent or no
\* armature, and Map Shape Keys to Bones with no armature selected, return
\* CANCELLED and leave the document as it was.
C12_WrongTypeCancels ==
    [][(nops' = nops + 1
          /\ (WrongTypeHooks \/ WrongTypeSpokes \/ WrongTypeMap)') =>
          /\ status' = "CANCELLED"
          /\ Snapshot' = pre']_vars

\* the copy-transforms constraints of `owner` that point at `subtarget`
CopyConstraints(owner, subtarget) ==
    {k \in 1..Len(constraints) :
        /\ constraints[k].owner = owner
        /\ constraints[k].type = "COPY_TRANSFORMS"
        /\ constraints[k].subtarget = subtarget}

\* C15: Create Hooks run on a selected bone that already has its hook-<name>
\* bone creates no second hook bone for it and leaves the bone with a single
\* copy-transforms constraint to its hook.
C15_HookReused ==
    Returned("hook_on_bone") =>
        \A i \in 1..Len(SelBonesBefore) :
            LET B == SelBonesBefore[i]
                hook == PRF_HOOK \o B.name
            IN hook \in Names(pre.bones) =>
                  /\ loc.made[i] \notin Created
                  /\ Cardinality(CopyConstraints(B.name, hook)) = 1

\* the spoke bones a finished Create Spokes call handled
HandledSpokes ==
    IF loc.op = "create_spokes" THEN Range(loc.made) ELSE Range(loc.names)
NewConstraints == (Len(pre.constraints) + 1)..Len(constraints)

\* C20: with the tracked-tip option on, every spoke handled by Create Spokes
\* gets a tip bone named tip-<spoke name> with its head at the spoke's tail
\* and a damped-track constraint owned by the spoke whose sub-target is that
\* tip bone; with the option off no tip bone and no constraint is created.
C20_TrackedTips ==
    (Returned("create_spokes") \/ Returned("create_spoke_tips")) =>
        IF loc.self.tip
        THEN \A spoke \in HandledSpokes :
                LET tip == PRF_TIP \o spoke
                IN /\ tip \in Created
                   /\ Get(bones, tip).head = Get(bones, spoke).tail
                   /\ \E k \in NewConstraints :
                         /\ constraints[k].owner = spoke
                         /\ constraints[k].type = "DAMPED_TRACK"
                         /\ constraints[k].target = loc.armature
                         /\ constraints[k].subtarget = tip
        ELSE /\ constraints = pre.constraints
             /\ \A spoke \in HandledSpokes : PRF_TIP \o spoke \notin Created
             /\ Cardinality(Created) =
                   IF loc.op = "create_spokes"
                   THEN Len(loc.made) + (IF loc.self.parent THEN 1 ELSE 0)
                   ELSE IF loc.self.parent THEN Len(loc.names) ELSE 0

-----------------------------------------------------------------------------
(* Properties of the binding and masking operators *)

Finished(op) == status = "FINISHED" /\ loc.op = op
\* the operator that finished was also the one called before it
Again(op) == Finished(op) /\ loc.prev.op = op
MeshesBound == {o \in pre.selected : TypeOf(o) = "MESH"}
LatticeModifiers(mods, lattice) ==
    {i \in 1..Len(mods) : mods[i].type = "LATTICE" /\ mods[i].object = lattice}

\* C13 as stated: a second run of Bind Lattice to Objects with the same
\* lattice and meshes adds no lattice modifier and no vertex group.
C13_Original ==
    Again("bind_to_lattice") =>
        \A o \in MeshesBound :
            /\ Len(modifiers[o]) = Len(pre.modifiers[o])
            /\ Len(vertex_groups[o]) = Len(pre.vertex_groups[o])

\* C13 amended: a second run with the same lattice and meshes adds no
\* lattice modifier, and adds no vertex group unless the vertex-group option
\* is on in the second run only; every run leaves a mesh that had no lattice
\* modifier for the lattice with exactly one, and any other mesh with as
\* many as it had.
C13_IdempotentBinding ==
    Finished("bind_to_lattice") =>
        \A o \in MeshesBound :
            LET had == Cardinality(LatticeModifiers(pre.modifiers[o], pre.active))
                has == Cardinality(LatticeModifiers(modifiers[o], pre.active))
            IN /\ has = IF had = 0 THEN 1 ELSE had
               /\ Len(modifiers[o]) = Len(pre.modifiers[o]) + (has - had)
               /\ Len(vertex_groups[o]) =
                     Len(pre.vertex_groups[o]) +
                        (IF /\ loc.opt.create_vertex_group
                            /\ pre.active \notin Names(pre.vertex_groups[o])
                         THEN 1 ELSE 0)
               /\ Again("bind_to_lattice") =>
                     /\ Len(modifiers[o]) = Len(pre.modifiers[o])
                     /\ \/ ~loc.prev.opt.create_vertex_group
                           /\ loc.opt.create_vertex_group
                        \/ Len(vertex_groups[o]) = Len(pre.vertex_groups[o])

C13_Witness ==
    /\ Again("bind_to_lattice")
    /\ loc.opt.create_vertex_group /\ loc.prev.opt.create_vertex_group
    /\ "mesh" \in MeshesBound
    /\ Len(modifiers["mesh"]) = 1 /\ Len(vertex_groups["mesh"]) = 1

\* the object whose shape keys Map Shape Keys to Bones worked on
MappedMesh == CHOOSE o \in Range(loc.names) : o # loc.armature
DriverOf(drvs, path) == drvs[DriverIndex(drvs, path)]

\* C21: Map Shape Keys to Bones adds or updates the driver of a shape key
\* exactly when the key is not the reference key and the armature has a
\* selected bone of the same name; the driver state of every other key is
\* unchanged, and after a second run each such driver has a single variable,
\* named a.
C21_DriversForSelectedBones ==
    Finished("map_shape_keys") =>
        LET keys == shape_keys[MappedMesh]
            now == drivers[MappedMesh]
            was == pre.drivers[MappedMesh]
        IN \A i \in 1..Len(keys) :
              LET path == shape_data_path(keys[i])
              IN IF i # 1 /\ bone_selected(pre.bones, keys[i])
                 THEN /\ path \in DriverPaths(now)
                      /\ DriverOf(now, path).type = "SCRIPTED"
                      /\ Len(DriverOf(now, path).variables) = 1
                      /\ DriverOf(now, path).variables[1].name = "a"
                      /\ DriverOf(now, path).variables[1].id = loc.armature
                      /\ DriverOf(now, path).variables[1].bone_target = keys[i]
                 ELSE /\ path \in DriverPaths(now) <=> path \in DriverPaths(was)
                      /\ path \in DriverPaths(was) =>
                            DriverOf(now, path) = DriverOf(was, path)

C21_Witness ==
    /\ Again("map_shape_keys")
    /\ MappedMesh = "mesh"
    /\ bone_selected(pre.bones, "B") /\ ~bone_selected(pre.bones, "A")
    /\ shape_data_path("B") \in DriverPaths(pre.drivers["mesh"])
    /\ Len(drivers["mesh"]) = 1

\* C14: Mask Selected Vertices adds at most one modifier to a mesh over any
\* sequence of invocations, from any set of modifiers: an invocation that
\* finds a modifier named Z_ADH_MASK adds none.
C14_MaskModifierReused ==
    (/\ Finished("mask_selected_vertices")
     /\ \/ loc.prev.op = "mask_selected_vertices"
        \/ MASK_NAME \in Names(pre.modifiers[pre.active])) =>
        Len(modifiers[pre.active]) = Len(pre.modifiers[pre.active])

\* C22: after Mask Selected Vertices returns, for each action and for
\* every prior state of the mesh's vertex groups, none at all included, the
\* mesh's active vertex group is the one that was active at invocation.
C22_ActiveGroupRestored ==
    Finished("mask_selected_vertices") =>
        save_vg(vertex_groups[pre.active], vg_active[pre.active]) =
            save_vg(pre.vertex_groups[pre.active], pre.vg_active[pre.active])

\* C16: after Use Same Custom Shape, the custom shape of each selected pose
\* bone is the one the active pose bone had at invocation, for every
\* selection of objects and bones.
C16_ShapeOfActiveBone ==
    Finished("use_same_custom_shape") =>
        \A b \in Range(selected_pose_bones(pre.bones)) :
            custom_shape[b] = pre.custom_shape[pre.active_bone]

\* the vertex groups Remove Vertex Groups of Unselected Bones is to keep
KeptGroup(g) == g.name \in Range(loc.names) \/ g.lock_weight

NotLattice(m) == m.type # "LATTICE"

\* C18: after Apply Lattices finishes, the active mesh has no shape key and
\* no lattice modifier, whatever modifiers it had and in whatever order, and
\* still has its modifiers of other types.
C18_LatticesApplied ==
    Finished("apply_lattices") =>
        /\ shape_keys[pre.active] = <<>>
        /\ \A i \in 1..Len(modifiers[pre.active]) : NotLattice(modifiers[pre.active][i])
        /\ modifiers[pre.active] = SelectSeq(pre.modifiers[pre.active], NotLattice)

C18_Witness ==
    /\ Finished("apply_lattices")
    /\ Len(pre.shape_keys[pre.active]) > 0
    /\ Len(pre.modifiers[pre.active]) = 3
    /\ Len(modifiers[pre.active]) = 1

ArmatureModifiers(mods, armature) ==
    {i \in 1..Len(mods) : mods[i].type = "ARMATURE" /\ mods[i].object = armature}

\* C19: after Bind Object to Bone, each selected mesh has an armature
\* modifier for the active armature and a vertex group named after the
\* active bone, each added only if there was none; a second run with the
\* same selection leaves the modifier and vertex-group counts as they were.
C19_BoundOnce ==
    Finished("bind_to_bone") =>
        \A o \in MeshesBound :
            LET had_mod == ArmatureModifiers(pre.modifiers[o], pre.active) # {}
                had_vg == pre.active_bone \in Names(pre.vertex_groups[o])
            IN /\ ArmatureModifiers(modifiers[o], pre.active) # {}
               /\ pre.active_bone \in Names(vertex_groups[o])
               /\ Len(modifiers[o]) =
                     Len(pre.modifiers[o]) + (IF had_mod THEN 0 ELSE 1)
               /\ Len(vertex_groups[o]) =
                     Len(pre.vertex_groups[o]) + (IF had_vg THEN 0 ELSE 1)
               /\ Again("bind_to_bone") =>
                     /\ Len(modifiers[o]) = Len(pre.modifiers[o])
                     /\ Len(vertex_groups[o]) = Len(pre.vertex_groups[o])

C19_Witness ==
    /\ Again("bind_to_bone")
    /\ "mesh" \in MeshesBound
    /\ Len(modifiers["mesh"]) = 1 /\ Len(vertex_groups["mesh"]) = 1

\* C23: at every step of Create Spokes, in the mesh path and in the spoke
\* tips path, the parent reference of every bone names a bone that exists in
\* the armature (or is empty).
C23_ParentsExist ==
    loc.op \in {"create_spokes", "create_spoke_tips"} =>
        \A i \in 1..Len(bones) :
            bones[i].parent = "" \/ bones[i].parent \in Names(bones)

C23_Witness ==
    /\ pc = "create_spokes"
    /\ loc.self.parent
    /\ Len(loc.coords) = 2 /\ loc.idx = 1
    /\ Get(bones, loc.made[1]).parent = loc.parent

\* C25: after Create Hooks or Create Spokes finishes, in every path of
\* both, every armature layer that holds a bone the operator created is one
\* of the armature's visible layers.
C25_NewBonesOnVisibleLayers ==
    (\/ Returned("create_spokes") \/ Returned("create_spoke_tips")
     \/ Returned("hook_on_lattice") \/ Returned("hook_on_bone")) =>
        \A n \in Created : Get(bones, n).layers \subseteq arm_layers

-----------------------------------------------------------------------------
(* ADH_CreateCustomShape: the widget builders *)
(*                                                                         *)
(* Sizes and positions are counted in halves (SizeUnit stands for 1.0).    *)
(* A coordinate literal c of the source is the integer c * 10^8, rounded,  *)
(* and a vertex coordinate is kept in units of 10^-8 / SizeUnit, so that   *)
(* `c * size` is the product of the two integers.  Rotations are the       *)
(* quarter turns, whose sine and cosine are taken as exact.                *)

SizeUnit == 2
WIDGET_SIZE_MAX == 4
WIDGET_POS_MIN == -1
WIDGET_POS_MAX == 3
WIDGET_ROT_MAX == 90

Scaled(c, size) == c * size
Unscaled(c) == c * SizeUnit

\* create_sphere_widget, lines 234-259
sphere_verts(size) ==
    << <<Scaled(-35355338, size), Scaled(-35355338, size), Scaled(3, size)>>,
       <<Scaled(-50000000, size), Scaled(2, size), Scaled(0, size)>>,
       <<Scaled(-35355338, size), Scaled(35355338, size), Scaled(-3, size)>>,
       <<Scaled(4, size), Scaled(50000000, size), Scaled(-3, size)>>,
       <<Scaled(-24999994, size), Scaled(-35355338, size), Scaled(25000006, size)>>,
       <<Scaled(-35355338, size), Scaled(6, size), Scaled(35355344, size)>>,
       <<Scaled(-24999994, size), Scaled(35355341, size), Scaled(25000003, size)>>,
       <<Scaled(8, size), Scaled(-35355341, size), Scaled(35355344, size)>>,
       <<Scaled(9, size), Scaled(6, size), Scaled(50000012, size)>>,
       <<Scaled(8, size), Scaled(35355341, size), Scaled(35355338, size)>>,
       <<Scaled(25000009, size), Scaled(-35355335, size), Scaled(25000000, size)>>,
       <<Scaled(35355350, size), Scaled(6, size), Scaled(35355338, size)>>,
       <<Scaled(25000009, size), Scaled(35355341, size), Scaled(24999997, size)>>,
       <<Scaled(35355347, size), Scaled(-35355341, size), Scaled(-3, size)>>,
       <<Scaled(50000012, size), Scaled(3, size), Scaled(-8, size)>>,
       <<Scaled(35355347, size), Scaled(35355338, size), Scaled(-9, size)>>,
       <<Scaled(25000003, size), Scaled(-35355344, size), Scaled(-25000006, size)>>,
       <<Scaled(35355338, size), Scaled(0, size), Scaled(-35355350, size)>>,
       <<Scaled(25000003, size), Scaled(35355332, size), Scaled(-25000012, size)>>,
       <<Scaled(-4, size), Scaled(-35355344, size), Scaled(-35355341, size)>>,
       <<Scaled(-8, size), Scaled(0, size), Scaled(-50000000, size)>>,
       <<Scaled(-4, size), Scaled(35355338, size), Scaled(-35355347, size)>>,
       <<Scaled(1, size), Scaled(-50000000, size), Scaled(0, size)>>,
       <<Scaled(-25000009, size), Scaled(-35355344, size), Scaled(-24999994, size)>>,
       <<Scaled(-35355350, size), Scaled(0, size), Scaled(-35355332, size)>>,
       <<Scaled(-25000009, size), Scaled(35355332, size), Scaled(-25000000, size)>> >>

\* create_sphere_widget, lines 260-265
sphere_edges ==
    << <<0, 1>>, <<1, 2>>, <<2, 3>>, <<4, 5>>, <<5, 6>>, <<2, 6>>,
       <<0, 4>>, <<5, 1>>, <<7, 8>>, <<8, 9>>, <<6, 9>>, <<5, 8>>,
       <<7, 4>>, <<10, 11>>, <<11, 12>>, <<9, 12>>, <<10, 7>>, <<11, 8>>,
       <<13, 14>>, <<14, 15>>, <<12, 15>>, <<13, 10>>, <<14, 11>>, <<16, 17>>,
       <<17, 18>>, <<15, 18>>, <<16, 13>>, <<17, 14>>, <<19, 20>>, <<20, 21>>,
       <<18, 21>>, <<16, 19>>, <<20, 17>>, <<22, 23>>, <<23, 24>>, <<24, 25>>,
       <<21, 25>>, <<20, 24>>, <<23, 19>>, <<22, 0>>, <<22, 4>>, <<6, 3>>,
       <<22, 7>>, <<9, 3>>, <<22, 10>>, <<12, 3>>, <<22, 13>>, <<15, 3>>,
       <<22, 16>>, <<18, 3>>, <<22, 19>>, <<21, 3>>, <<25, 3>>, <<25, 2>>,
       <<0, 23>>, <<1, 24>> >>

\* create_ring_widget, lines 285-308
ring_verts(size) ==
    << <<Scaled(0, size), Scaled(3, size), Scaled(50000000, size)>>,
       <<Scaled(-12940952, size), Scaled(3, size), Scaled(48296291, size)>>,
       <<Scaled(-25000000, size), Scaled(3, size), Scaled(43301269, size)>>,
       <<Scaled(-35355338, size), Scaled(3, size), Scaled(35355338, size)>>,
       <<Scaled(-43301272, size), Scaled(1, size), Scaled(24999999, size)>>,
       <<Scaled(-48296291, size), Scaled(1, size), Scaled(12940954, size)>>,
       <<Scaled(-50000000, size), Scaled(0, size), Scaled(4, size)>>,
       <<Scaled(-48296294, size), Scaled(-1, size), Scaled(-12940946, size)>>,
       <<Scaled(-43301275, size), Scaled(-1, size), Scaled(-24999993, size)>>,
       <<Scaled(-35355347, size), Scaled(-3, size), Scaled(-35355330, size)>>,
       <<Scaled(-25000012, size), Scaled(-3, size), Scaled(-43301263, size)>>,
       <<Scaled(-12940969, size), Scaled(-3, size), Scaled(-48296288, size)>>,
       <<Scaled(-19, size), Scaled(-3, size), Scaled(-50000000, size)>>,
       <<Scaled(12940931, size), Scaled(-3, size), Scaled(-48296297, size)>>,
       <<Scaled(24999979, size), Scaled(-3, size), Scaled(-43301281, size)>>,
       <<Scaled(35355321, size), Scaled(-3, size), Scaled(-35355359, size)>>,
       <<Scaled(43301260, size), Scaled(-3, size), Scaled(-25000015, size)>>,
       <<Scaled(48296285, size), Scaled(-1, size), Scaled(-12940972, size)>>,
       <<Scaled(50000000, size), Scaled(0, size), Scaled(-23, size)>>,
       <<Scaled(48296297, size), Scaled(1, size), Scaled(12940927, size)>>,
       <<Scaled(43301284, size), Scaled(1, size), Scaled(24999975, size)>>,
       <<Scaled(35355362, size), Scaled(3, size), Scaled(35355318, size)>>,
       <<Scaled(25000030, size), Scaled(3, size), Scaled(43301255, size)>>,
       <<Scaled(12940988, size), Scaled(3, size), Scaled(48296282, size)>> >>

\* create_ring_widget, lines 309-311
ring_edges ==
    << <<1, 0>>, <<2, 1>>, <<3, 2>>, <<4, 3>>, <<5, 4>>, <<6, 5>>,
       <<7, 6>>, <<8, 7>>, <<9, 8>>, <<10, 9>>, <<11, 10>>, <<12, 11>>,
       <<13, 12>>, <<14, 13>>, <<15, 14>>, <<16, 15>>, <<17, 16>>, <<18, 17>>,
       <<19, 18>>, <<20, 19>>, <<21, 20>>, <<22, 21>>, <<23, 22>>, <<0, 23>> >>

\* the square with a Y coordinate that is not multiplied by size
square_verts_fixed_y(size) ==
    << <<Scaled(50000000, size), Unscaled(-50000000), Scaled(0, size)>>,
       <<Scaled(-50000000, size), Unscaled(-50000000), Scaled(0, size)>>,
       <<Scaled(50000000, size), Unscaled(50000000), Scaled(0, size)>>,
       <<Scaled(-50000000, size), Unscaled(50000000), Scaled(0, size)>> >>

\* create_square_widget, lines 330-331
square_verts(size) ==
    << <<Scaled(50000000, size), Scaled(-50000000, size), Scaled(0, size)>>,
       <<Scaled(-50000000, size), Scaled(-50000000, size), Scaled(0, size)>>,
       <<Scaled(50000000, size), Scaled(50000000, size), Scaled(0, size)>>,
       <<Scaled(-50000000, size), Scaled(50000000, size), Scaled(0, size)>> >>

\* the square with an edge that ends one past the last vertex
square_edges_past_end ==
    << <<0, 1>>, <<2, 3>>, <<0, 2>>, <<4, 1>> >>

\* create_square_widget, lines 332-332
square_edges ==
    << <<0, 1>>, <<2, 3>>, <<0, 2>>, <<3, 1>> >>

\* create_triangle_widget, lines 351-351
triangle_verts(size) ==
    << <<Scaled(0, size), Scaled(0, size), Unscaled(0)>>,
       <<Scaled(60000000, size), Scaled(100000000, size), Unscaled(0)>>,
       <<Scaled(-60000000, size), Scaled(100000000, size), Unscaled(0)>> >>

\* create_triangle_widget, lines 352-352
triangle_edges ==
    << <<1, 2>>, <<0, 1>>, <<2, 0>> >>

\* create_bidirection_widget, lines 371-375
bidirection_verts(size) ==
    << <<Scaled(0, size), Scaled(-50000000, size), Scaled(0, size)>>,
       <<Scaled(0, size), Scaled(50000000, size), Scaled(0, size)>>,
       <<Scaled(15000001, size), Scaled(-34999999, size), Scaled(0, size)>>,
       <<Scaled(-15000001, size), Scaled(34999999, size), Scaled(0, size)>>,
       <<Scaled(15000001, size), Scaled(34999999, size), Scaled(0, size)>>,
       <<Scaled(-15000001, size), Scaled(-34999999, size), Scaled(0, size)>> >>

\* create_bidirection_widget, lines 376-376
bidirection_edges ==
    << <<2, 0>>, <<4, 1>>, <<5, 0>>, <<3, 1>>, <<0, 1>> >>

\* create_box_widget, lines 395-397
box_verts(size) ==
    << <<Scaled(-50000000, size), Unscaled(-50000000), Scaled(-50000000, size)>>,
       <<Scaled(-50000000, size), Unscaled(50000000), Scaled(-50000000, size)>>,
       <<Scaled(50000000, size), Unscaled(50000000), Scaled(-50000000, size)>>,
       <<Scaled(50000000, size), Unscaled(-50000000), Scaled(-50000000, size)>>,
       <<Scaled(-50000000, size), Unscaled(-50000000), Scaled(50000000, size)>>,
       <<Scaled(-50000000, size), Unscaled(50000000), Scaled(50000000, size)>>,
       <<Scaled(50000000, size), Unscaled(50000000), Scaled(50000000, size)>>,
       <<Scaled(50000000, size), Unscaled(-50000000), Scaled(50000000, size)>> >>

\* create_box_widget, lines 398-398
box_edges ==
    << <<4, 5>>, <<5, 1>>, <<1, 0>>, <<0, 4>>, <<5, 6>>, <<6, 2>>,
       <<2, 1>>, <<6, 7>>, <<7, 3>>, <<3, 2>>, <<7, 4>>, <<0, 3>> >>

\* create_fourways_widget, lines 417-456
fourways_verts(size) ==
    << <<Scaled(58296287, size), Unscaled(-1), Scaled(12940972, size)>>,
       <<Scaled(-12940952, size), Unscaled(3), Scaled(-48296291, size)>>,
       <<Scaled(-25000000, size), Unscaled(3), Scaled(-43301269, size)>>,
       <<Scaled(-35355338, size), Unscaled(3), Scaled(-35355338, size)>>,
       <<Scaled(-43301272, size), Unscaled(1), Scaled(-24999999, size)>>,
       <<Scaled(-48296291, size), Unscaled(1), Scaled(-12940954, size)>>,
       <<Scaled(58296299, size), Unscaled(1), Scaled(-12940927, size)>>,
       <<Scaled(-48296294, size), Unscaled(-1), Scaled(12940946, size)>>,
       <<Scaled(-43301275, size), Unscaled(-1), Scaled(24999993, size)>>,
       <<Scaled(-35355347, size), Unscaled(-3), Scaled(35355330, size)>>,
       <<Scaled(-25000012, size), Unscaled(-3), Scaled(43301263, size)>>,
       <<Scaled(-12940969, size), Unscaled(-3), Scaled(48296288, size)>>,
       <<Scaled(-12940969, size), Unscaled(-3), Scaled(58296287, size)>>,
       <<Scaled(12940931, size), Unscaled(-3), Scaled(48296297, size)>>,
       <<Scaled(24999979, size), Unscaled(-3), Scaled(43301281, size)>>,
       <<Scaled(35355321, size), Unscaled(-3), Scaled(35355359, size)>>,
       <<Scaled(43301260, size), Unscaled(-3), Scaled(25000015, size)>>,
       <<Scaled(48296285, size), Unscaled(-1), Scaled(12940972, size)>>,
       <<Scaled(12940931, size), Unscaled(-3), Scaled(58296299, size)>>,
       <<Scaled(48296297, size), Unscaled(1), Scaled(-12940927, size)>>,
       <<Scaled(43301284, size), Unscaled(1), Scaled(-24999975, size)>>,
       <<Scaled(35355362, size), Unscaled(3), Scaled(-35355318, size)>>,
       <<Scaled(25000030, size), Unscaled(3), Scaled(-43301255, size)>>,
       <<Scaled(12940988, size), Unscaled(3), Scaled(-48296282, size)>>,
       <<Scaled(-19411460, size), Unscaled(-3), Scaled(58296299, size)>>,
       <<Scaled(-21, size), Unscaled(-3), Scaled(75600004, size)>>,
       <<Scaled(19411394, size), Unscaled(-3), Scaled(58296299, size)>>,
       <<Scaled(58296287, size), Unscaled(-1), Scaled(19411454, size)>>,
       <<Scaled(75600004, size), Unscaled(0), Scaled(25, size)>>,
       <<Scaled(58296299, size), Unscaled(1), Scaled(-19411394, size)>>,
       <<Scaled(-58296287, size), Unscaled(1), Scaled(-19411436, size)>>,
       <<Scaled(-75600004, size), Unscaled(0), Scaled(-4, size)>>,
       <<Scaled(-58296293, size), Unscaled(-1), Scaled(19411415, size)>>,
       <<Scaled(0, size), Unscaled(3), Scaled(-75600004, size)>>,
       <<Scaled(-19411433, size), Unscaled(3), Scaled(-58296281, size)>>,
       <<Scaled(19411477, size), Unscaled(3), Scaled(-58296281, size)>>,
       <<Scaled(-58296293, size), Unscaled(-1), Scaled(12940946, size)>>,
       <<Scaled(-58296287, size), Unscaled(1), Scaled(-12940954, size)>>,
       <<Scaled(12940988, size), Unscaled(3), Scaled(-58296281, size)>>,
       <<Scaled(-12940952, size), Unscaled(3), Scaled(-58296287, size)>> >>

\* create_fourways_widget, lines 457-460
fourways_edges ==
    << <<2, 1>>, <<3, 2>>, <<4, 3>>, <<5, 4>>, <<8, 7>>, <<9, 8>>,
       <<10, 9>>, <<11, 10>>, <<39, 34>>, <<14, 13>>, <<15, 14>>, <<16, 15>>,
       <<17, 16>>, <<38, 23>>, <<37, 5>>, <<20, 19>>, <<21, 20>>, <<22, 21>>,
       <<23, 22>>, <<36, 32>>, <<25, 24>>, <<26, 25>>, <<0, 17>>, <<18, 13>>,
       <<12, 24>>, <<28, 27>>, <<29, 28>>, <<6, 29>>, <<6, 19>>, <<0, 27>>,
       <<31, 30>>, <<32, 31>>, <<12, 11>>, <<36, 7>>, <<37, 30>>, <<34, 33>>,
       <<33, 35>>, <<38, 35>>, <<18, 26>>, <<39, 1>> >>

\* create_fourgaps_widget, lines 479-498
fourgaps_verts(size) ==
    << <<Scaled(-19411433, size), Unscaled(3), Scaled(-58296281, size)>>,
       <<Scaled(-30721572, size), Unscaled(4), Scaled(-53211325, size)>>,
       <<Scaled(-43446863, size), Unscaled(4), Scaled(-43446863, size)>>,
       <<Scaled(-53211325, size), Unscaled(2), Scaled(-30721569, size)>>,
       <<Scaled(-58296287, size), Unscaled(1), Scaled(-19411436, size)>>,
       <<Scaled(-58296293, size), Unscaled(-1), Scaled(19411415, size)>>,
       <<Scaled(-53211331, size), Unscaled(-2), Scaled(30721563, size)>>,
       <<Scaled(-43446875, size), Unscaled(-4), Scaled(43446851, size)>>,
       <<Scaled(-30721584, size), Unscaled(-4), Scaled(53211313, size)>>,
       <<Scaled(-19411460, size), Unscaled(-3), Scaled(58296299, size)>>,
       <<Scaled(19411394, size), Unscaled(-3), Scaled(58296299, size)>>,
       <<Scaled(30721548, size), Unscaled(-4), Scaled(53211337, size)>>,
       <<Scaled(43446839, size), Unscaled(-4), Scaled(43446887, size)>>,
       <<Scaled(53211313, size), Unscaled(-4), Scaled(30721590, size)>>,
       <<Scaled(58296287, size), Unscaled(-1), Scaled(19411454, size)>>,
       <<Scaled(58296299, size), Unscaled(1), Scaled(-19411394, size)>>,
       <<Scaled(53211337, size), Unscaled(2), Scaled(-30721542, size)>>,
       <<Scaled(43446895, size), Unscaled(4), Scaled(-43446839, size)>>,
       <<Scaled(30721608, size), Unscaled(4), Scaled(-53211302, size)>>,
       <<Scaled(19411477, size), Unscaled(3), Scaled(-58296281, size)>> >>

\* create_fourgaps_widget, lines 499-500
fourgaps_edges ==
    << <<1, 0>>, <<2, 1>>, <<3, 2>>, <<4, 3>>, <<6, 5>>, <<7, 6>>,
       <<8, 7>>, <<9, 8>>, <<11, 10>>, <<12, 11>>, <<13, 12>>, <<14, 13>>,
       <<16, 15>>, <<17, 16>>, <<18, 17>>, <<19, 18>> >>

WidgetShapes == {"sphere", "ring", "square", "triangle", "bidirection", "box",
                 "fourways", "fourgaps"}

\* Matrix.Rotation(math.radians(rot), 4, 'X') applied to v
rot_mat(rot, v) ==
    CASE rot = 0 -> v
      [] rot = 90 -> <<v[1], -v[3], v[2]>>
      [] rot = -90 -> <<v[1], v[3], -v[2]>>

\* Matrix.Translation(Vector((0.0, pos, 0.0))) applied to v
trans_mat(pos, v) == <<v[1], v[2] + pos * 100000000, v[3]>>

\* mat = rot_mat @ trans_mat: the rotation applied after the translation
widget_mat_rot_last(pos, rot, v) == rot_mat(rot, trans_mat(pos, v))

\* mat = trans_mat @ rot_mat
widget_mat(pos, rot, v) == trans_mat(pos, rot_mat(rot, v))

\* mesh.from_pydata(verts, edges, faces); mesh.transform(mat)
from_pydata(shape, size, pos, rot, verts, edges, faces) ==
    [shape |-> shape, size |-> size, pos |-> pos, rot |-> rot,
     verts |-> verts, edges |-> edges, faces |-> faces,
     mesh |-> [i \in 1..Len(verts) |-> widget_mat(pos, rot, verts[i])],
     obj |-> "", objects |-> {}]

create_sphere_widget(size, pos, rot) ==
    from_pydata("sphere", size, pos, rot, sphere_verts(size), sphere_edges, <<>>)
create_ring_widget(size, pos, rot) ==
    from_pydata("ring", size, pos, rot, ring_verts(size), ring_edges, <<>>)
create_square_widget(size, pos, rot) ==
    from_pydata("square", size, pos, rot, square_verts(size), square_edges, <<>>)
create_triangle_widget(size, pos, rot) ==
    from_pydata("triangle", size, pos, rot, triangle_verts(size), triangle_edges, <<>>)
create_bidirection_widget(size, pos, rot) ==
    from_pydata("bidirection", size, pos, rot, bidirection_verts(size),
                bidirection_edges, <<>>)
create_box_widget(size, pos, rot) ==
    from_pydata("box", size, pos, rot, box_verts(size), box_edges, <<>>)
create_fourways_widget(size, pos, rot) ==
    from_pydata("fourways", size, pos, rot, fourways_verts(size), fourways_edges, <<>>)
create_fourgaps_widget(size, pos, rot) ==
    from_pydata("fourgaps", size, pos, rot, fourgaps_verts(size), fourgaps_edges, <<>>)

\* execute, line 524: getattr(self, "create_%s_widget" % self.widget_shape)
widget_func(shape, size, pos, rot) ==
    CASE shape = "sphere" -> create_sphere_widget(size, pos, rot)
      [] shape = "ring" -> create_ring_widget(size, pos, rot)
      [] shape = "square" -> create_square_widget(size, pos, rot)
      [] shape = "triangle" -> create_triangle_widget(size, pos, rot)
      [] shape = "bidirection" -> create_bidirection_widget(size, pos, rot)
      [] shape = "box" -> create_box_widget(size, pos, rot)
      [] shape = "fourways" -> create_fourways_widget(size, pos, rot)
      [] shape = "fourgaps" -> create_fourgaps_widget(size, pos, rot)

WGT_PREFIX == "WGT-"

\* rigify.utils.widgets.create_widget (imported on line 8): the object is
\* named after the rig and the bone; None ("") when the scene already has it
create_widget(scene_objects, rig, bone_name) ==
    LET obj_name == WGT_PREFIX \o rig \o "_" \o bone_name
    IN IF obj_name \in scene_objects THEN "" ELSE obj_name

\* every builder, e.g. create_square_widget lines 327-345: the mesh of the
\* object create_widget returned, or None when it returned None
create_shape_widget(scene_objects, shape, rig, bone_name, size, pos, rot) ==
    LET obj == create_widget(scene_objects, rig, bone_name)
    IN IF obj # ""
       THEN [widget_func(shape, size, pos, rot) EXCEPT
                !.obj = obj, !.objects = scene_objects \cup {obj}]
       ELSE [NoWidget EXCEPT !.objects = scene_objects]

\* create_widget_from_object, lines 205-226 (the matrix products and the
\* scene calls with the meaning they had when written). The matrices of the
\* model scale and translate along X, and the heads of the bones are at
\* X = 0: bone.matrix leaves X alone.
create_widget_from_object(scene_objects, rig, bone, widget_src) ==
    LET obj_name == WGT_PREFIX \o bone
        verts == [i \in 1..Len(mesh_verts) |-> mesh_verts[i].co]
        matrix_src == matrix_world[widget_src]
        matrix_bone == matrix_world[rig]
    IN [NoWidget EXCEPT
           !.shape = "selected", !.verts = verts,
           !.mesh = [i \in 1..Len(verts) |->
                        MatApply(MatInverted(matrix_bone),
                                 MatApply(matrix_src, verts[i]))],
           !.obj = obj_name, !.objects = scene_objects \cup {obj_name}]

\* poll, lines 185-188
CreateCustomShape_poll ==
    /\ TypeOf(active) = "ARMATURE"
    /\ mode[active] = "POSE"
    /\ active_bone # ""

\* execute, lines 517-533. With the shape 'selected' getattr gives None: the
\* widget is made from the selected mesh if there is exactly one, and
\* calling func raises otherwise. With a built-in shape the builder's result,
\* an object or None, becomes the custom shape of every selected pose bone.
CreateCustomShape_execute ==
    /\ pc = "idle"
    /\ nops < MaxOps
    /\ CreateCustomShape_poll
    /\ nops' = nops + 1
    /\ pre' = Snapshot
    /\ \E widget_shape \in WidgetShapes \cup {"selected"} :
          LET rig == active
              bone == active_bone
              widget_sources == SelectedMeshes
              func_is_none == widget_shape \notin WidgetShapes
              sel == Range(selected_pose_bones(bones))
              assign(w) ==
                  /\ widget' = w
                  /\ custom_shape' = [b \in DOMAIN custom_shape |->
                                         IF b \in sel \/ (func_is_none /\ b = bone)
                                         THEN w.obj ELSE custom_shape[b]]
                  /\ status' = "FINISHED"
          IN /\ loc' = [NoLoc EXCEPT !.prev = Prev, !.op = "create_custom_shape",
                                     !.names = <<widget_shape>>]
             /\ IF func_is_none /\ Cardinality(widget_sources) = 1
                THEN assign(create_widget_from_object(
                                widget.objects, rig, bone,
                                CHOOSE o \in widget_sources : TRUE))
                ELSE IF func_is_none
                THEN /\ status' = "ERROR"
                     /\ UNCHANGED <<widget, custom_shape>>
                ELSE IF create_widget(widget.objects, rig, bone) = ""
                THEN assign(create_shape_widget(widget.objects, widget_shape,
                                                rig, bone, 0, 0, 0))
                ELSE \E size \in 0..WIDGET_SIZE_MAX,
                        pos \in WIDGET_POS_MIN..WIDGET_POS_MAX,
                        rot \in {-WIDGET_ROT_MAX, 0, WIDGET_ROT_MAX} :
                        assign(create_shape_widget(widget.objects, widget_shape,
                                                   rig, bone, size, pos, rot))
    /\ UNCHANGED <<bones, constraints, arm_layers, matrix_world, mesh_verts,
                   lat_points, modifiers, vertex_groups, active, selected, mode,
                   pc, shape_keys, animation_data, drivers, active_bone,
                   vg_active, obj_parent>>

\* The armature is active in pose mode with an active bone; the mesh has no
\* modifiers, vertex groups or shape keys.
WidgetInit ==
    /\ ToolsInit
    /\ active = "rig"
    /\ modifiers["mesh"] = <<>>
    /\ vertex_groups["mesh"] = <<>>
    /\ shape_keys["mesh"] = <<>>

WidgetNext == CreateCustomShape_execute

SpecWidget == WidgetInit /\ [][WidgetNext]_vars

-----------------------------------------------------------------------------
(* Properties of the widget builders *)

Built == widget.shape \in WidgetShapes
UnitVerts == widget_func(widget.shape, SizeUnit, 0, 0).verts
FixedDepthShapes == {"box", "fourways", "fourgaps"}

\* C8 as stated: for each built-in shape and every size, each coordinate of
\* each vertex handed to the mesh is size times the same coordinate of the
\* size-1 definition; the square at size 2 has 4 vertices and 4 edges.
C8_Original ==
    Built =>
        /\ Len(widget.verts) = Len(UnitVerts)
        /\ \A i \in 1..Len(widget.verts) : \A c \in 1..3 :
              widget.verts[i][c] * SizeUnit = widget.size * UnitVerts[i][c]
        /\ widget.shape = "square" => Len(widget.verts) = 4 /\ Len(widget.edges) = 4

\* C8 amended: every coordinate is size times the size-1 coordinate, except
\* the Y coordinate (along the bone) of the box, fourways and fourgaps
\* widgets, which keeps its size-1 value at every size; the square has 4
\* vertices and 4 edges, every coordinate scaled.
C8_ScaledBySize ==
    Built =>
        /\ Len(widget.verts) = Len(UnitVerts)
        /\ \A i \in 1..Len(widget.verts) : \A c \in 1..3 :
              IF widget.shape \in FixedDepthShapes /\ c = 2
              THEN widget.verts[i][c] = UnitVerts[i][c]
              ELSE widget.verts[i][c] * SizeUnit = widget.size * UnitVerts[i][c]
        /\ widget.shape = "square" => Len(widget.verts) = 4 /\ Len(widget.edges) = 4

C8_Witness == widget.shape = "box" /\ widget.size = 2 * SizeUnit

\* C9: every edge of a built-in widget is a pair of indices of its vertex
\* list, and the widget has no faces.
C9_EdgesIndexVertices ==
    Built =>
        /\ \A k \in 1..Len(widget.edges) : \A j \in 1..2 :
              widget.edges[k][j] \in 0..(Len(widget.verts) - 1)
        /\ widget.faces = <<>>

C9_Witness == widget.shape = "fourways" /\ Len(widget.edges) = 40

MeshSet(w) == {w.mesh[i] : i \in 1..Len(w.mesh)}
Opposite == widget_func(widget.shape, widget.size, widget.pos, -widget.rot)

\* C10 as stated: the vertex sets built with rotation 90 and -90 are mirror
\* images under the reflection that fixes the X axis, for every position.
C10_Original ==
    (Built /\ widget.rot = WIDGET_ROT_MAX) =>
        MeshSet(Opposite) = {<<v[1], -v[2], -v[3]>> : v \in MeshSet(widget)}

\* C10 amended: the vertex sets built with rotation 90 and -90 are mirror
\* images under the reflection that fixes the line parallel to the X axis
\* through (0, position, 0), which is the X axis for position 0 only; the
\* transform is the translation by the position applied after the rotation.
C10_MirrorAboutShiftedAxis ==
    (Built /\ widget.rot = WIDGET_ROT_MAX) =>
        /\ MeshSet(Opposite) =
              {<<v[1], 2 * (widget.pos * 100000000) - v[2], -v[3]>> : v \in MeshSet(widget)}
        /\ \A i \in 1..Len(widget.verts) :
              widget.mesh[i] = trans_mat(widget.pos, rot_mat(widget.rot, widget.verts[i]))

C10_Witness ==
    /\ widget.shape = "triangle" /\ widget.rot = WIDGET_ROT_MAX
    /\ widget.pos = SizeUnit /\ widget.size = SizeUnit

-----------------------------------------------------------------------------
(* Properties of ADH_CreateCustomShape.execute *)

Shaped(shape_set) ==
    loc.op = "create_custom_shape" /\ loc.names[1] \in shape_set

\* C24: Create Custom Shape with the shape 'selected' and a number of
\* selected mesh objects other than one ends with a status and leaves the
\* custom shape of every bone as it was.
C24_SelectedWithoutSourceEnds ==
    (Shaped({"selected"}) /\ Cardinality(SelectedMeshes) # 1) =>
        /\ status \in {"FINISHED", "CANCELLED"}
        /\ custom_shape = pre.custom_shape

\* C26: when the builder of Create Custom Shape yields no object, every
\* selected pose bone that had a custom shape before the call still has it.
C26_NoShapeRemoved ==
    (Shaped(WidgetShapes) /\ status = "FINISHED" /\ widget.obj = "") =>
        \A b \in Range(selected_pose_bones(bones)) :
            pre.custom_shape[b] # "" => custom_shape[b] = pre.custom_shape[b]
====
